---- MODULE Spec2Model ----
(***************************************************************************)
(* Verification model of the neurolab simulation core: the RK4 integrator, *)
(* the Izhikevich and Hodgkin-Huxley neuron models and the AMPA/GABA-A     *)
(* synapse, over an explicit heap (calloc/free) and pointer model.         *)
(*                                                                         *)
(* Numbers: a C float x is represented in fixed point as the integer       *)
(* floor(x * FP).  Products and quotients are rounded down to the unit     *)
(* 1/FP.  Pointers are records [b |-> block, o |-> offset]; a block is one *)
(* calloc'ed allocation (or the caller-owned cells the synapse may be      *)
(* connected to).                                                          *)
(***************************************************************************)
EXTENDS Integers, Sequences, FiniteSets, TLC

VARIABLES heap, mem, obj, fault, allocLog, freeLog, trace, hnd, ret, ticks, ctx, inputs

vars == <<heap, mem, obj, fault, allocLog, freeLog, trace, hnd, ret, ticks, ctx, inputs>>

(* ------------------------------------------------------------------ *)
(* Bounds of the model                                                 *)
(* ------------------------------------------------------------------ *)

\* advance calls on a live handle per run
MaxTicks == 2

(* ------------------------------------------------------------------ *)
(* Fixed-point arithmetic standing for C float                         *)
(* ------------------------------------------------------------------ *)

FP == 1000

Abs(x) == IF x < 0 THEN -x ELSE x

\* floor(a * b / FP), splitting the larger factor so that no intermediate
\* product leaves the 32-bit integer range
Mul(a, b) ==
    IF Abs(a) >= Abs(b)
    THEN (a \div FP) * b + ((a % FP) * b) \div FP
    ELSE (b \div FP) * a + ((b % FP) * a) \div FP

\* floor(a * FP / b) for b > 0, without forming a * FP
DivPos(a, b) == (a \div b) * FP + ((a % b) * FP) \div b

\* a / b in fixed point
Div(a, b) == IF b < 0 THEN DivPos(-a, -b) ELSE DivPos(a, b)

(* ------------------------------------------------------------------ *)
(* Heap, memory and pointers                                           *)
(* ------------------------------------------------------------------ *)

Kinds == {"iz", "hh", "syn"}

\* the allocations a model instance makes: the struct, the state vector,
\* the parameter/current buffer and the integrator scratch buffer
Parts == {"struct", "sv", "ib", "rk"}

EnvBlock == <<"env", "cell">>

Blocks == (Kinds \X Parts) \cup {EnvBlock}

NullBlock == <<"NULL", "NULL">>

NULL == [b |-> NullBlock, o |-> 0]

Ptr(b, o) == [b |-> b, o |-> o]

\* p + i
At(p, i) == [b |-> p.b, o |-> p.o + i]

\* the world a handler runs in, as one record threaded through its statements
World == [heap |-> heap, mem |-> mem, obj |-> obj, fault |-> fault,
          allocLog |-> allocLog, freeLog |-> freeLog, trace |-> trace]

Valid(W, p) ==
    /\ p.b \in Blocks
    /\ W.heap[p.b] = "live"
    /\ p.o >= 0
    /\ p.o < Len(W.mem[p.b])

\* *p
Rd(W, p) == IF Valid(W, p) THEN W.mem[p.b][p.o + 1] ELSE 0

\* *p = x ; a store through an invalid pointer is recorded as a fault
Wr(W, p, x) ==
    IF Valid(W, p)
    THEN [W EXCEPT !.mem[p.b][p.o + 1] = x]
    ELSE [W EXCEPT !.fault = TRUE]

\* a load through an invalid pointer is recorded as a fault
Chk(W, p) == IF Valid(W, p) THEN W ELSE [W EXCEPT !.fault = TRUE]

\* the n floats starting at p
RdVec(W, p, n) == [i \in 1..n |-> Rd(W, At(p, i - 1))]

\* calloc(n, sizeof(float)) of block b: zero-filled
Calloc(W, b, n) ==
    [W EXCEPT !.heap[b] = "live",
              !.mem[b] = [i \in 1..n |-> 0],
              !.allocLog = Append(@, b)]

\* free(p): free(NULL) is a no-op; freeing anything that is not the start of
\* a live block (double free, never allocated) is recorded as a fault
Free(W, p) ==
    IF p = NULL THEN W
    ELSE IF p.b \in Blocks /\ p.o = 0 /\ W.heap[p.b] = "live"
         THEN [W EXCEPT !.heap[p.b] = "unalloc",
                        !.mem[p.b] = <<>>,
                        !.freeLog = Append(@, p.b)]
         ELSE [W EXCEPT !.fault = TRUE]

(* ------------------------------------------------------------------ *)
(* exp() of libm, in fixed point                                       *)
(* ------------------------------------------------------------------ *)

\* floor(e^k * FP) for the integers k = 1..14
ExpInt == <<2718, 7389, 20085, 54598, 148413, 403428, 1096633, 2980957,
            8103083, 22026465, 59874141, 162754791, 442413392, 1202604284>>

\* floor(e^-k * FP) for k = 1..7
ExpNeg == <<367, 135, 49, 18, 6, 2, 0>>

\* e^f for 0 <= f < 1 by its series up to f^6
ExpFrac(f) ==
    LET f2 == Mul(f, f)
        f3 == Mul(f2, f)
        f4 == Mul(f3, f)
        f5 == Mul(f4, f)
        f6 == Mul(f5, f)
    IN  FP + f + f2 \div 2 + f3 \div 6 + f4 \div 24 + f5 \div 120 + f6 \div 720

\* exp(x); the result saturates at e^14 (the largest power whose fixed-point
\* image fits the integer range) and underflows to 0 below e^-7
FpExp(x) ==
    LET k == x \div FP
        f == x % FP
    IN  IF k >= 14 THEN ExpInt[14]
        ELSE IF k <= -7 THEN 0
        ELSE IF k = 0 THEN ExpFrac(f)
        ELSE IF k > 0 THEN Mul(ExpInt[k], ExpFrac(f))
        ELSE Mul(ExpNeg[-k], ExpFrac(f))

(* ------------------------------------------------------------------ *)
(* Structs (zero-filled by calloc)                                     *)
(* ------------------------------------------------------------------ *)

ZeroSlopes == [k1 |-> NULL, k2 |-> NULL, k3 |-> NULL, k4 |-> NULL, tempState |-> NULL]

\* a zero-filled RK4 struct
ZeroRK4 == [n |-> 0, dt |-> 0, params |-> "NULL", buffer |-> NULL,
            slopes |-> ZeroSlopes, derivFunc |-> "NULL"]

\* a zero-filled IzhikevichModel
ZeroIz ==
    [integrator |-> ZeroRK4, stateVector |-> NULL, internalBuffer |-> NULL,
     neuron |-> [params |-> [a |-> NULL, b |-> NULL, c |-> NULL, d |-> NULL],
                 state |-> [v |-> NULL, u |-> NULL],
                 currents |-> [Iext |-> NULL, Isyn |-> NULL]]]

\* a zero-filled AmpaGabaaModel
ZeroSyn ==
    [integrator |-> ZeroRK4, stateVector |-> NULL, internalBuffer |-> NULL,
     synapse |-> [state |-> [synCurrent |-> NULL, openChannels |-> NULL,
                             ntConcentration |-> NULL],
                  receptor |-> [alphaRate |-> NULL, betaRate |-> NULL,
                                gMax |-> NULL, eRev |-> NULL],
                  ntParams |-> [vP |-> NULL, kP |-> NULL, tMax |-> NULL,
                                vPre |-> NULL, vPost |-> NULL, iSynPost |-> NULL]]]

\* a zero-filled HodgkinHuxleyModel
ZeroHH ==
    [integrator |-> ZeroRK4, stateVector |-> NULL, internalBuffer |-> NULL,
     neuron |-> [params |-> [C |-> 0, gL |-> 0, eL |-> 0, eK |-> 0, gK |-> 0,
                             eNa |-> 0, gNa |-> 0],
                 state |-> [v |-> NULL, m |-> NULL, h |-> NULL, n |-> NULL],
                 currents |-> [iL |-> NULL, iK |-> NULL, iNa |-> NULL,
                               iSyn |-> NULL, iExt |-> NULL]]]

ZeroObj(k) == IF k = "iz" THEN ZeroIz ELSE IF k = "hh" THEN ZeroHH ELSE ZeroSyn

\* calloc(1, sizeof(<model struct>)) of kind k
CallocStruct(W, k) ==
    [W EXCEPT !.heap[<<k, "struct">>] = "live",
              !.mem[<<k, "struct">>] = <<>>,
              !.obj[k] = ZeroObj(k),
              !.allocLog = Append(@, <<k, "struct">>)]

\* free(model): the struct's fields are gone with it
FreeStruct(W, k) ==
    IF W.heap[<<k, "struct">>] = "live"
    THEN [W EXCEPT !.heap[<<k, "struct">>] = "unalloc",
                   !.obj[k] = ZeroObj(k),
                   !.freeLog = Append(@, <<k, "struct">>)]
    ELSE [W EXCEPT !.fault = TRUE]

Log(W, e) == [W EXCEPT !.trace = Append(@, e)]

(* ------------------------------------------------------------------ *)
(* Izhikevich configuration and derivative                             *)
(* ------------------------------------------------------------------ *)

IZHIKEVICH_SPIKE_PEAK == 30000

\* the rows CHATTERING .. THALAMO_CORTICAL in the order of the array (row
\* i + 1 is IZHIKEVICH_PARAMETERS[i]); type is the enum value of the row's
\* .type designator
IZHIKEVICH_PARAMETERS ==
    << [type |-> 0, a |-> 20,  b |-> 200, c |-> -50000, d |-> 2000],
       [type |-> 1, a |-> 100, b |-> 200, c |-> -65000, d |-> 2000],
       [type |-> 2, a |-> 20,  b |-> 200, c |-> -55000, d |-> 4000],
       [type |-> 3, a |-> 20,  b |-> 250, c |-> -65000, d |-> 2000],
       [type |-> 4, a |-> 20,  b |-> 200, c |-> -65000, d |-> 8000],
       [type |-> 5, a |-> 100, b |-> 260, c |-> -60000, d |-> -1000],
       [type |-> 6, a |-> 20,  b |-> 250, c |-> -65000, d |-> 50] >>

QUAD_COEFF == 40

LINEAR_COEFF == 5000

CONST_TERM == 140000

\* faulty variant of IzhikevichDerivatives: the input current I is left out of
\* dv/dt
IzhikevichDerivatives_NoInput(W, state, deriv, params) ==
    LET neuron == W.obj[params].neuron
        v == Rd(W, state)
        u == Rd(W, At(state, 1))
        a == Rd(W, neuron.params.a)
        b == Rd(W, neuron.params.b)
        I == Rd(W, neuron.currents.Iext) + Rd(W, neuron.currents.Isyn)
        dv == Mul(Mul(QUAD_COEFF, v), v) + Mul(LINEAR_COEFF, v) + CONST_TERM - u
        du == Mul(a, Mul(b, v) - u)
        W1 == Log(W, [ev |-> "f", fn |-> "IzhikevichDerivatives", x |-> <<v, u>>,
                      I |-> I])
        W2 == Wr(W1, deriv, dv)
    IN  Wr(W2, At(deriv, 1), du)

\* f(state, deriv, params) for the Izhikevich neuron
IzhikevichDerivatives(W, state, deriv, params) ==
    LET neuron == W.obj[params].neuron
        v == Rd(W, state)
        u == Rd(W, At(state, 1))
        a == Rd(W, neuron.params.a)
        b == Rd(W, neuron.params.b)
        I == Rd(W, neuron.currents.Iext) + Rd(W, neuron.currents.Isyn)
        dv == Mul(Mul(QUAD_COEFF, v), v) + Mul(LINEAR_COEFF, v) + CONST_TERM - u + I
        du == Mul(a, Mul(b, v) - u)
        W1 == Log(W, [ev |-> "f", fn |-> "IzhikevichDerivatives", x |-> <<v, u>>,
                      I |-> I])
        W2 == Wr(W1, deriv, dv)
    IN  Wr(W2, At(deriv, 1), du)

(* ------------------------------------------------------------------ *)
(* AMPA/GABA-A configuration and derivative                            *)
(* ------------------------------------------------------------------ *)

T_MAX == 1000

IZ_SYN_CFG ==
    [KP |-> 5000, VP |-> 2000,
     ampaConnectionRate |-> 1100, ampaDisconnectionRate |-> 300,
     ampaReversalPotential |-> 0, ampaMaximumConductancy |-> 0,
     gaba_aConnectionRate |-> 5000, gaba_aDisconnectionRate |-> 180,
     gaba_aReversalPotential |-> -80000, gaba_aMaximumConductancy |-> 0]

HH_SYN_CFG ==
    [KP |-> 5000, VP |-> 62000,
     ampaConnectionRate |-> 1100, ampaDisconnectionRate |-> 190,
     ampaReversalPotential |-> 60000, ampaMaximumConductancy |-> 0,
     gaba_aConnectionRate |-> 5000, gaba_aDisconnectionRate |-> 180,
     gaba_aReversalPotential |-> -80000, gaba_aMaximumConductancy |-> 0]

DEFAULT_VALUE == 0

DEFAULT_V_PRE == -70000

DEFAULT_V_POST == -70000

\* faulty variant of AmpaGabaaDerivatives: *vPre is used as it is, without
\* the default
AmpaGabaaDerivatives_NoDefault(W, state, deriv, params) ==
    LET synapse == W.obj[params].synapse
        r == Rd(W, state)
        vPre == Rd(W, synapse.ntParams.vPre)
        tMax == Rd(W, synapse.ntParams.tMax)
        kP == Rd(W, synapse.ntParams.kP)
        vP == Rd(W, synapse.ntParams.vP)
        t == Div(tMax, FP + FpExp(Div(-(vPre - vP), kP)))
        W0 == Chk(W, synapse.ntParams.vPre)
        W1 == Wr(W0, synapse.state.ntConcentration, t)
        alpha == Rd(W1, synapse.receptor.alphaRate)
        beta == Rd(W1, synapse.receptor.betaRate)
        W2 == Log(W1, [ev |-> "f", fn |-> "AmpaGabaaDerivatives", x |-> <<r>>,
                       vPre |-> vPre, t |-> t])
    IN  Wr(W2, deriv, Mul(Mul(alpha, t), FP - r) - Mul(beta, r))

\* faulty variant of AmpaGabaaDerivatives: the defaulted presynaptic voltage is
\* stored back through the vPre pointer
AmpaGabaaDerivatives_StoreDefault(W, state, deriv, params) ==
    LET synapse == W.obj[params].synapse
        r == Rd(W, state)
        vPre == IF Rd(W, synapse.ntParams.vPre) # 0
                THEN Rd(W, synapse.ntParams.vPre) ELSE DEFAULT_V_PRE
        tMax == Rd(W, synapse.ntParams.tMax)
        kP == Rd(W, synapse.ntParams.kP)
        vP == Rd(W, synapse.ntParams.vP)
        t == Div(tMax, FP + FpExp(Div(-(vPre - vP), kP)))
        W0 == Wr(W, synapse.ntParams.vPre, vPre)
        W1 == Wr(W0, synapse.state.ntConcentration, t)
        alpha == Rd(W1, synapse.receptor.alphaRate)
        beta == Rd(W1, synapse.receptor.betaRate)
        W2 == Log(W1, [ev |-> "f", fn |-> "AmpaGabaaDerivatives", x |-> <<r>>,
                       vPre |-> vPre, t |-> t])
    IN  Wr(W2, deriv, Mul(Mul(alpha, t), FP - r) - Mul(beta, r))

\* f(state, deriv, params) for the synapse
AmpaGabaaDerivatives(W, state, deriv, params) ==
    LET synapse == W.obj[params].synapse
        r == Rd(W, state)
        vPre == IF Rd(W, synapse.ntParams.vPre) # 0
                THEN Rd(W, synapse.ntParams.vPre) ELSE DEFAULT_V_PRE
        tMax == Rd(W, synapse.ntParams.tMax)
        kP == Rd(W, synapse.ntParams.kP)
        vP == Rd(W, synapse.ntParams.vP)
        t == Div(tMax, FP + FpExp(Div(-(vPre - vP), kP)))
        W0 == Chk(W, synapse.ntParams.vPre)
        W1 == Wr(W0, synapse.state.ntConcentration, t)
        alpha == Rd(W1, synapse.receptor.alphaRate)
        beta == Rd(W1, synapse.receptor.betaRate)
        W2 == Log(W1, [ev |-> "f", fn |-> "AmpaGabaaDerivatives", x |-> <<r>>,
                       vPre |-> vPre, t |-> t])
    IN  Wr(W2, deriv, Mul(Mul(alpha, t), FP - r) - Mul(beta, r))

(* ------------------------------------------------------------------ *)
(* Hodgkin-Huxley configuration, rate functions and derivative         *)
(* ------------------------------------------------------------------ *)

\* 9.0f * PI etc. are folded to their fixed-point values
HH_CONFIG ==
    [restingPotential |-> -65000,
     membraneCapacitancy |-> 28274,
     leakReversal |-> 10600,
     sodiumReversal |-> 115000,
     potassiumReversal |-> -12000,
     leakConductance |-> 8482,
     sodiumConductance |-> 3392920,
     potassiumConductance |-> 1017876]

\* exp(z) - 1 for |z| < 1, z and the result in units of 1/(10 * FP): the C code
\* evaluates the rate quotients in double precision, so that the denominator
\* vanishes only at the singular voltage itself
Expm1Fine(z) ==
    LET S  == 10 * FP
        z2 == (z * z) \div S
        z3 == (z2 * z) \div S
        z4 == (z3 * z) \div S
    IN  z + z2 \div 2 + z3 \div 6 + z4 \div 24

\* the denominator exp(x / 10.0) - 1 of the quotient shared by AlphaM and
\* AlphaN (x = 25.0 - v or 10.0 - v), in units of 1/(10 * FP) for |x| < 10 and
\* of 1/FP otherwise; it is 0 for x = 0 only
QuotientDenominator(x) ==
    IF Abs(x) < 10 * FP THEN Expm1Fine(x) ELSE FpExp(x \div 10) - FP

\* x / (exp(x / 10.0) - 1), x # 0
RateQuotient(x) ==
    IF Abs(x) < 10 * FP
    THEN (x * 10 * FP) \div QuotientDenominator(x)
    ELSE Div(x, QuotientDenominator(x))

\* faulty variant of AlphaM: the quotient is evaluated for every input; at the
\* singular voltage 0/0 gives a NaN, which stands here as -1
AlphaM_Quotient(voltage) ==
    IF QuotientDenominator(25000 - voltage) = 0 THEN -1
    ELSE RateQuotient(25000 - voltage) \div 10

AlphaM(voltage) ==
    IF voltage = 25000 THEN 1000
    ELSE RateQuotient(25000 - voltage) \div 10

BetaM(voltage) == Mul(4000, FpExp(Div(-voltage, 18000)))

AlphaH(voltage) == Mul(70, FpExp(Div(-voltage, 20000)))

BetaH(voltage) == Div(FP, FpExp(Div(30000 - voltage, 10000)) + FP)

AlphaN(voltage) ==
    IF voltage = 10000 THEN 100
    ELSE RateQuotient(10000 - voltage) \div 100

BetaN(voltage) == Mul(125, FpExp(Div(-voltage, 80000)))

\* alpha / (alpha + beta) at the resting potential
GATE_REST_M ==
    Div(AlphaM(HH_CONFIG.restingPotential),
        AlphaM(HH_CONFIG.restingPotential) + BetaM(HH_CONFIG.restingPotential))

GATE_REST_H ==
    Div(AlphaH(HH_CONFIG.restingPotential),
        AlphaH(HH_CONFIG.restingPotential) + BetaH(HH_CONFIG.restingPotential))

GATE_REST_N ==
    Div(AlphaN(HH_CONFIG.restingPotential),
        AlphaN(HH_CONFIG.restingPotential) + BetaN(HH_CONFIG.restingPotential))

\* faulty variant of HodgkinHuxleyDerivatives: the closing term of dm/dt is
\* added instead of subtracted
HodgkinHuxleyDerivatives_GateSign(W, state, deriv, params) ==
    LET neuron == W.obj[params].neuron
        v == Rd(W, state)
        m == Rd(W, At(state, 1))
        h == Rd(W, At(state, 2))
        n == Rd(W, At(state, 3))
        iL == Mul(neuron.params.gL, neuron.params.eL - v)
        iK == Mul(Mul(Mul(Mul(Mul(neuron.params.gK, n), n), n), n),
                  neuron.params.eK - v)
        iNa == Mul(Mul(Mul(Mul(Mul(neuron.params.gNa, m), m), m), h),
                   neuron.params.eNa - v)
        I == Rd(W, neuron.currents.iExt) + Rd(W, neuron.currents.iSyn)
        W1 == Wr(W, neuron.currents.iL, iL)
        W2 == Wr(W1, neuron.currents.iK, iK)
        W3 == Wr(W2, neuron.currents.iNa, iNa)
        W4 == Log(W3, [ev |-> "f", fn |-> "HodgkinHuxleyDerivatives",
                       x |-> <<v, m, h, n>>, I |-> I,
                       cache |-> [iL |-> iL, iK |-> iK, iNa |-> iNa]])
        W5 == Wr(W4, deriv, Div((iNa + iK + iL) + I, neuron.params.C))
        W6 == Wr(W5, At(deriv, 1), Mul(AlphaM(v), FP - m) + Mul(BetaM(v), m))
        W7 == Wr(W6, At(deriv, 2), Mul(AlphaH(v), FP - h) - Mul(BetaH(v), h))
    IN  Wr(W7, At(deriv, 3), Mul(AlphaN(v), FP - n) - Mul(BetaN(v), n))

\* f(state, deriv, params) for the Hodgkin-Huxley neuron
HodgkinHuxleyDerivatives(W, state, deriv, params) ==
    LET neuron == W.obj[params].neuron
        v == Rd(W, state)
        m == Rd(W, At(state, 1))
        h == Rd(W, At(state, 2))
        n == Rd(W, At(state, 3))
        iL == Mul(neuron.params.gL, neuron.params.eL - v)
        iK == Mul(Mul(Mul(Mul(Mul(neuron.params.gK, n), n), n), n),
                  neuron.params.eK - v)
        iNa == Mul(Mul(Mul(Mul(Mul(neuron.params.gNa, m), m), m), h),
                   neuron.params.eNa - v)
        I == Rd(W, neuron.currents.iExt) + Rd(W, neuron.currents.iSyn)
        W1 == Wr(W, neuron.currents.iL, iL)
        W2 == Wr(W1, neuron.currents.iK, iK)
        W3 == Wr(W2, neuron.currents.iNa, iNa)
        W4 == Log(W3, [ev |-> "f", fn |-> "HodgkinHuxleyDerivatives",
                       x |-> <<v, m, h, n>>, I |-> I,
                       cache |-> [iL |-> iL, iK |-> iK, iNa |-> iNa]])
        W5 == Wr(W4, deriv, Div((iNa + iK + iL) + I, neuron.params.C))
        W6 == Wr(W5, At(deriv, 1), Mul(AlphaM(v), FP - m) - Mul(BetaM(v), m))
        W7 == Wr(W6, At(deriv, 2), Mul(AlphaH(v), FP - h) - Mul(BetaH(v), h))
    IN  Wr(W7, At(deriv, 3), Mul(AlphaN(v), FP - n) - Mul(BetaN(v), n))

(* ------------------------------------------------------------------ *)
(* RK4 integrator                                                      *)
(* ------------------------------------------------------------------ *)

\* the call f(state, deriv, params) through the DerivativeFunc pointer
CallDeriv(W, f, state, deriv, params) ==
    IF f = "IzhikevichDerivatives" THEN IzhikevichDerivatives(W, state, deriv, params)
    ELSE IF f = "HodgkinHuxleyDerivatives"
         THEN HodgkinHuxleyDerivatives(W, state, deriv, params)
    ELSE IF f = "AmpaGabaaDerivatives" THEN AmpaGabaaDerivatives(W, state, deriv, params)
    ELSE [W EXCEPT !.fault = TRUE]

\* RK4Init(&model->integrator, func, &model-><neuron|synapse>, n, dt) of the
\* model struct k; ok tells whether calloc succeeds.  Yields [W, ret].
RK4Init(W, k, func, n, dt, ok) ==
    LET W1 == [W EXCEPT !.obj[k].integrator.derivFunc = func,
                        !.obj[k].integrator.params = k,
                        !.obj[k].integrator.n = n,
                        !.obj[k].integrator.dt = dt]
        rk == <<k, "rk">>
    IN  IF ~ok
        THEN [W |-> [W1 EXCEPT !.obj[k].integrator.buffer = NULL], ret |-> FALSE]
        ELSE [W |-> [Calloc(W1, rk, 5 * n)
                       EXCEPT !.obj[k].integrator.buffer = Ptr(rk, 0),
                              !.obj[k].integrator.slopes =
                                  [k1 |-> Ptr(rk, 0), k2 |-> Ptr(rk, n),
                                   k3 |-> Ptr(rk, 2 * n), k4 |-> Ptr(rk, 3 * n),
                                   tempState |-> Ptr(rk, 4 * n)]],
              ret |-> TRUE]

\* faulty variant of StageLoop: temp_state[i] += state[i] + c * kk[i], which
\* builds on what the scratch held before
RECURSIVE StageLoop_Accumulate(_, _, _, _, _, _, _)
StageLoop_Accumulate(W, i, n, temp, state, c, kk) ==
    IF i >= n THEN W
    ELSE StageLoop_Accumulate(
             Wr(W, At(temp, i),
                Rd(W, At(temp, i)) + Rd(W, At(state, i)) + Mul(c, Rd(W, At(kk, i)))),
             i + 1, n, temp, state, c, kk)

\* for (i = 0; i < n; i++) temp_state[i] = state[i] + c * kk[i];  from index i on
RECURSIVE StageLoop(_, _, _, _, _, _, _)
StageLoop(W, i, n, temp, state, c, kk) ==
    IF i >= n THEN W
    ELSE StageLoop(Wr(W, At(temp, i), Rd(W, At(state, i)) + Mul(c, Rd(W, At(kk, i)))),
                   i + 1, n, temp, state, c, kk)

\* for (i = 0; i < n; i++) state[i] += (k1[i] + 2.0 * (k2[i] + k3[i]) + k4[i]) * dtSixth;
\* dtSixth = dt / 6.0 is below the fixed-point unit, so the product by it is
\* taken as (sum * dt) / 6
RECURSIVE UpdateLoop(_, _, _, _, _, _)
UpdateLoop(W, i, n, state, s, dt) ==
    IF i >= n THEN W
    ELSE LET sum == Rd(W, At(s.k1, i))
                    + 2 * (Rd(W, At(s.k2, i)) + Rd(W, At(s.k3, i)))
                    + Rd(W, At(s.k4, i))
         IN  UpdateLoop(Wr(W, At(state, i), Rd(W, At(state, i)) + Mul(sum, dt) \div 6),
                        i + 1, n, state, s, dt)

\* faulty variant of RK4Calculate: the input of the fourth stage is built with
\* dt / 2 instead of dt
RK4Calculate_HalfStep(W, k, state) ==
    LET g == W.obj[k].integrator
        n == g.n
        dt == g.dt
        dtHalf == Mul(dt, FP \div 2)
        s == g.slopes
        K1(A) == CallDeriv(A, g.derivFunc, state, s.k1, g.params)
        Y1(A) == StageLoop(A, 0, n, s.tempState, state, dtHalf, s.k1)
        K2(A) == CallDeriv(A, g.derivFunc, s.tempState, s.k2, g.params)
        Y2(A) == StageLoop(A, 0, n, s.tempState, state, dtHalf, s.k2)
        K3(A) == CallDeriv(A, g.derivFunc, s.tempState, s.k3, g.params)
        Y3(A) == StageLoop(A, 0, n, s.tempState, state, dtHalf, s.k3)
        K4(A) == CallDeriv(A, g.derivFunc, s.tempState, s.k4, g.params)
        Upd(A) == UpdateLoop(A, 0, n, state, s, dt)
        Out(A) == Log(A, [ev |-> "y", y |-> RdVec(A, state, n)])
    IN  CHOOSE a9 \in
          {Out(a8) : a8 \in
          {Upd(a7) : a7 \in
          {K4(a6) : a6 \in
          {Y3(a5) : a5 \in
          {K3(a4) : a4 \in
          {Y2(a3) : a3 \in
          {K2(a2) : a2 \in
          {Y1(a1) : a1 \in {K1(W)}}}}}}}}} : TRUE

\* RK4Calculate(&model->integrator, state) of the model struct k.  The
\* statements run in the order K1, Y1, K2, Y2, K3, Y3, K4, Upd, each on the
\* world the one before it left (written innermost first below).
RK4Calculate(W, k, state) ==
    LET g == W.obj[k].integrator
        n == g.n
        dt == g.dt
        dtHalf == Mul(dt, FP \div 2)
        s == g.slopes
        K1(A) == CallDeriv(A, g.derivFunc, state, s.k1, g.params)
        Y1(A) == StageLoop(A, 0, n, s.tempState, state, dtHalf, s.k1)
        K2(A) == CallDeriv(A, g.derivFunc, s.tempState, s.k2, g.params)
        Y2(A) == StageLoop(A, 0, n, s.tempState, state, dtHalf, s.k2)
        K3(A) == CallDeriv(A, g.derivFunc, s.tempState, s.k3, g.params)
        Y3(A) == StageLoop(A, 0, n, s.tempState, state, dt, s.k3)
        K4(A) == CallDeriv(A, g.derivFunc, s.tempState, s.k4, g.params)
        Upd(A) == UpdateLoop(A, 0, n, state, s, dt)
        Out(A) == Log(A, [ev |-> "y", y |-> RdVec(A, state, n)])
    IN  CHOOSE a9 \in
          {Out(a8) : a8 \in
          {Upd(a7) : a7 \in
          {K4(a6) : a6 \in
          {Y3(a5) : a5 \in
          {K3(a4) : a4 \in
          {Y2(a3) : a3 \in
          {K2(a2) : a2 \in
          {Y1(a1) : a1 \in {K1(W)}}}}}}}}} : TRUE

\* faulty variant of RK4Free: the scratch is freed but the pointers are kept
RK4Free_KeepPointers(W, k) ==
    IF k # "NULL" /\ W.obj[k].integrator.buffer # NULL
    THEN Free(W, W.obj[k].integrator.buffer)
    ELSE W

\* RK4Free(&model->integrator) of the model struct k; k = "NULL" is RK4Free(NULL)
RK4Free(W, k) ==
    IF k # "NULL" /\ W.obj[k].integrator.buffer # NULL
    THEN [Free(W, W.obj[k].integrator.buffer)
            EXCEPT !.obj[k].integrator.buffer = NULL,
                   !.obj[k].integrator.slopes = ZeroSlopes]
    ELSE W


(* ------------------------------------------------------------------ *)
(* Izhikevich model API.  Every operator yields [W, ret]; the handle   *)
(* `model` is "iz" or "NULL".                                          *)
(* ------------------------------------------------------------------ *)

IzSV == <<"iz", "sv">>

IzIB == <<"iz", "ib">>

\* faulty variant of IzhikevichFreeModel: free(model->stateVector) is missing
IzhikevichFreeModel_KeepState(W, model) ==
    IF model = "NULL" THEN [W |-> W, ret |-> FALSE]
    ELSE LET W1 == IF W.obj[model].integrator.buffer # NULL
                   THEN RK4Free(W, model) ELSE W
             W2 == Free(W1, W1.obj[model].internalBuffer)
         IN  [W |-> FreeStruct(W2, model), ret |-> TRUE]

IzhikevichFreeModel(W, model) ==
    IF model = "NULL" THEN [W |-> W, ret |-> FALSE]
    ELSE LET W1 == IF W.obj[model].integrator.buffer # NULL
                   THEN RK4Free(W, model) ELSE W
             W2 == Free(W1, W1.obj[model].internalBuffer)
             W3 == Free(W2, W2.obj[model].stateVector)
         IN  [W |-> FreeStruct(W3, model), ret |-> TRUE]

\* AllocateMemory(model); ok tells whether calloc succeeds
IzAllocateMemory(W, model, ok) ==
    IF ~ok THEN [W |-> [W EXCEPT !.obj[model].internalBuffer = NULL], ret |-> FALSE]
    ELSE [W |-> [Calloc(W, IzIB, 6)
                   EXCEPT !.obj[model].internalBuffer = Ptr(IzIB, 0),
                          !.obj[model].neuron.params =
                              [a |-> Ptr(IzIB, 0), b |-> Ptr(IzIB, 1),
                               c |-> Ptr(IzIB, 2), d |-> Ptr(IzIB, 3)],
                          !.obj[model].neuron.currents =
                              [Iext |-> Ptr(IzIB, 4), Isyn |-> Ptr(IzIB, 5)]],
          ret |-> TRUE]

\* faulty variant of IzSetInitial: v starts at c instead of c - 10
IzSetInitial_AtReset(W, model, type) ==
    LET nr == W.obj[model].neuron
        W1 == Wr(W, nr.params.a, IZHIKEVICH_PARAMETERS[type + 1].a)
        W2 == Wr(W1, nr.params.b, IZHIKEVICH_PARAMETERS[type + 1].b)
        W3 == Wr(W2, nr.params.c, IZHIKEVICH_PARAMETERS[type + 1].c)
        W4 == Wr(W3, nr.params.d, IZHIKEVICH_PARAMETERS[type + 1].d)
        W5 == Wr(W4, nr.currents.Iext, 0)
        W6 == Wr(W5, nr.currents.Isyn, 0)
        W7 == Wr(Chk(W6, nr.params.c), nr.state.v, Rd(W6, nr.params.c))
    IN  Wr(Chk(W7, nr.params.b), nr.state.u, Mul(Rd(W7, nr.params.b), Rd(W7, nr.state.v)))

\* statements 4 and 5 of IzhikevichInitModel: parameters, currents, initial state
IzSetInitial(W, model, type) ==
    LET nr == W.obj[model].neuron
        W1 == Wr(W, nr.params.a, IZHIKEVICH_PARAMETERS[type + 1].a)
        W2 == Wr(W1, nr.params.b, IZHIKEVICH_PARAMETERS[type + 1].b)
        W3 == Wr(W2, nr.params.c, IZHIKEVICH_PARAMETERS[type + 1].c)
        W4 == Wr(W3, nr.params.d, IZHIKEVICH_PARAMETERS[type + 1].d)
        W5 == Wr(W4, nr.currents.Iext, 0)
        W6 == Wr(W5, nr.currents.Isyn, 0)
        W7 == Wr(Chk(W6, nr.params.c), nr.state.v, Rd(W6, nr.params.c) - 10000)
    IN  Wr(Chk(W7, nr.params.b), nr.state.u, Mul(Rd(W7, nr.params.b), Rd(W7, nr.state.v)))

\* failAt = 0: every allocation succeeds; failAt = j: the j-th allocation
\* (struct, state vector, internal buffer, integrator scratch) returns NULL
IzhikevichInitModel(W, type, dt, failAt) ==
    IF failAt = 1 THEN [W |-> W, ret |-> "NULL"]
    ELSE
    LET model == "iz"
        W1 == CallocStruct(W, model)
    IN  IF failAt = 2
        THEN [W |-> IzhikevichFreeModel(W1, model).W, ret |-> "NULL"]
        ELSE
        LET W2 == [Calloc(W1, IzSV, 2)
                     EXCEPT !.obj[model].stateVector = Ptr(IzSV, 0),
                            !.obj[model].neuron.state =
                                [v |-> Ptr(IzSV, 0), u |-> Ptr(IzSV, 1)]]
            am == IzAllocateMemory(W2, model, failAt # 3)
        IN  IF ~am.ret
            THEN [W |-> IzhikevichFreeModel(am.W, model).W, ret |-> "NULL"]
            ELSE
            LET W3 == IzSetInitial(am.W, model, type)
                rk == RK4Init(W3, model, "IzhikevichDerivatives", 2, dt, failAt # 4)
            IN  IF ~rk.ret
                THEN [W |-> IzhikevichFreeModel(rk.W, model).W, ret |-> "NULL"]
                ELSE [W |-> rk.W, ret |-> model]

\* faulty variant of IzhikevichSetExternalCurrent: the value is added to the
\* external current
IzhikevichSetExternalCurrent_Add(W, model, iExt) ==
    IF model = "NULL" THEN [W |-> W, ret |-> FALSE]
    ELSE [W |-> Wr(W, W.obj[model].neuron.currents.Iext,
                   Rd(W, W.obj[model].neuron.currents.Iext) + iExt),
          ret |-> TRUE]

IzhikevichSetExternalCurrent(W, model, iExt) ==
    IF model = "NULL" THEN [W |-> W, ret |-> FALSE]
    ELSE [W |-> Wr(W, W.obj[model].neuron.currents.Iext, iExt), ret |-> TRUE]

\* faulty variant of IzSpikeReset: the reset assigns d to u
IzSpikeReset_AssignD(W, model) ==
    LET nr == W.obj[model].neuron
    IN  IF Rd(W, nr.state.v) >= IZHIKEVICH_SPIKE_PEAK
        THEN LET W2 == Wr(W, nr.state.v, Rd(W, nr.params.c))
                 W3 == Wr(W2, nr.state.u, Rd(W2, nr.params.d))
             IN  [W |-> Log(W3, [ev |-> "reset"]), ret |-> IZHIKEVICH_SPIKE_PEAK]
        ELSE [W |-> W, ret |-> Rd(W, nr.state.v)]

\* faulty variant of IzSpikeReset: the spike is reported and u is raised, but v
\* is left where the step put it
IzSpikeReset_KeepV(W, model) ==
    LET nr == W.obj[model].neuron
    IN  IF Rd(W, nr.state.v) >= IZHIKEVICH_SPIKE_PEAK
        THEN LET W3 == Wr(W, nr.state.u, Rd(W, nr.state.u) + Rd(W, nr.params.d))
             IN  [W |-> Log(W3, [ev |-> "reset"]), ret |-> IZHIKEVICH_SPIKE_PEAK]
        ELSE [W |-> W, ret |-> Rd(W, nr.state.v)]

\* the threshold test, reset and return of IzhikevichUpdateModel, on the
\* world W the integration step left
IzSpikeReset(W, model) ==
    LET nr == W.obj[model].neuron
    IN  IF Rd(W, nr.state.v) >= IZHIKEVICH_SPIKE_PEAK
        THEN LET W2 == Wr(W, nr.state.v, Rd(W, nr.params.c))
                 W3 == Wr(W2, nr.state.u, Rd(W2, nr.state.u) + Rd(W2, nr.params.d))
             IN  [W |-> Log(W3, [ev |-> "reset"]), ret |-> IZHIKEVICH_SPIKE_PEAK]
        ELSE [W |-> W, ret |-> Rd(W, nr.state.v)]

\* faulty variant of IzhikevichUpdateModel: the threshold test and the reset
\* come before the integration step
IzhikevichUpdateModel_ResetFirst(W, model) ==
    IF model = "NULL" THEN [W |-> W, ret |-> 0]
    ELSE
    LET nr == W.obj[model].neuron
        spike == Rd(W, nr.state.v) >= IZHIKEVICH_SPIKE_PEAK
        W1 == IF spike
              THEN LET W2 == Wr(W, nr.state.v, Rd(W, nr.params.c))
                       W3 == Wr(W2, nr.state.u, Rd(W2, nr.state.u) + Rd(W2, nr.params.d))
                   IN  Log(W3, [ev |-> "reset"])
              ELSE W
        W4 == RK4Calculate(W1, model, W1.obj[model].stateVector)
    IN  [W |-> W4, ret |-> IF spike THEN IZHIKEVICH_SPIKE_PEAK ELSE Rd(W4, nr.state.v)]

\* faulty variant of IzhikevichUpdateModel: the synaptic current is cleared
\* once the step has consumed it
IzhikevichUpdateModel_ClearSyn(W, model) ==
    IF model = "NULL" THEN [W |-> W, ret |-> 0]
    ELSE LET r == IzSpikeReset(RK4Calculate(W, model, W.obj[model].stateVector), model)
         IN  [W |-> Wr(r.W, r.W.obj[model].neuron.currents.Isyn, 0), ret |-> r.ret]


IzhikevichUpdateModel(W, model) ==
    IF model = "NULL" THEN [W |-> W, ret |-> 0]
    ELSE IzSpikeReset(RK4Calculate(W, model, W.obj[model].stateVector), model)

IzhikevichGetRecovery(W, model) ==
    IF model = "NULL" THEN [W |-> W, ret |-> 0]
    ELSE [W |-> Chk(W, W.obj[model].neuron.state.u),
          ret |-> Rd(W, W.obj[model].neuron.state.u)]

(* ------------------------------------------------------------------ *)
(* Hodgkin-Huxley model API; the handle `model` is "hh" or "NULL"      *)
(* ------------------------------------------------------------------ *)

HhSV == <<"hh", "sv">>

HhIB == <<"hh", "ib">>

\* faulty variant of HodgkinHuxleyFreeModel: the state buffer is freed before
\* the current buffer
HodgkinHuxleyFreeModel_StateFirst(W, model) ==
    IF model = "NULL" THEN [W |-> W, ret |-> FALSE]
    ELSE LET W1 == IF W.obj[model].integrator.buffer # NULL
                   THEN RK4Free(W, model) ELSE W
             W2 == Free(W1, W1.obj[model].stateVector)
             W3 == Free(W2, W2.obj[model].internalBuffer)
         IN  [W |-> FreeStruct(W3, model), ret |-> TRUE]

HodgkinHuxleyFreeModel(W, model) ==
    IF model = "NULL" THEN [W |-> W, ret |-> FALSE]
    ELSE LET W1 == IF W.obj[model].integrator.buffer # NULL
                   THEN RK4Free(W, model) ELSE W
             W2 == Free(W1, W1.obj[model].internalBuffer)
             W3 == Free(W2, W2.obj[model].stateVector)
         IN  [W |-> FreeStruct(W3, model), ret |-> TRUE]

\* AllocCurrents(model); ok tells whether calloc succeeds
AllocCurrents(W, model, ok) ==
    IF ~ok THEN [W |-> [W EXCEPT !.obj[model].internalBuffer = NULL], ret |-> FALSE]
    ELSE [W |-> [Calloc(W, HhIB, 5)
                   EXCEPT !.obj[model].internalBuffer = Ptr(HhIB, 0),
                          !.obj[model].neuron.currents =
                              [iNa |-> Ptr(HhIB, 0), iK |-> Ptr(HhIB, 1),
                               iL |-> Ptr(HhIB, 2), iSyn |-> Ptr(HhIB, 3),
                               iExt |-> Ptr(HhIB, 4)]],
          ret |-> TRUE]

\* statements 4 and 5 of HodgkinHuxleyInitModel: parameters and initial state
HhSetInitial(W, model) ==
    LET W1 == [W EXCEPT !.obj[model].neuron.params =
                   [C |-> HH_CONFIG.membraneCapacitancy,
                    eL |-> HH_CONFIG.leakReversal,
                    eK |-> HH_CONFIG.potassiumReversal,
                    eNa |-> HH_CONFIG.sodiumReversal,
                    gL |-> HH_CONFIG.leakConductance,
                    gK |-> HH_CONFIG.potassiumConductance,
                    gNa |-> HH_CONFIG.sodiumConductance]]
        st == W1.obj[model].neuron.state
        W2 == Wr(W1, st.v, HH_CONFIG.restingPotential)
        W3 == Wr(W2, st.m, GATE_REST_M)
        W4 == Wr(W3, st.h, GATE_REST_H)
    IN  Wr(W4, st.n, GATE_REST_N)

\* the end of HodgkinHuxleyInitModel, on the world W that AllocCurrents left:
\* the zeroed currents and statement 7, the integrator
HhInitIntegrator(W, model, dt, ok) ==
    LET W4 == Wr(W, W.obj[model].neuron.currents.iExt, 0)
        W5 == Wr(W4, W4.obj[model].neuron.currents.iSyn, 0)
        rk == RK4Init(W5, model, "HodgkinHuxleyDerivatives", 4, dt, ok)
    IN  IF rk.ret # TRUE
        THEN [W |-> HodgkinHuxleyFreeModel(rk.W, model).W, ret |-> "NULL"]
        ELSE [W |-> rk.W, ret |-> model]

\* statement 6 of HodgkinHuxleyInitModel and what follows it, on the world W
\* that holds the parameters and the initial state
HhInitCurrents(W, model, dt, failAt) ==
    LET ac == AllocCurrents(W, model, failAt # 3)
    IN  IF ac.ret # TRUE
        THEN [W |-> HodgkinHuxleyFreeModel(ac.W, model).W, ret |-> "NULL"]
        ELSE HhInitIntegrator(ac.W, model, dt, failAt # 4)

\* failAt as for IzhikevichInitModel
HodgkinHuxleyInitModel(W, dt, failAt) ==
    IF failAt = 1 THEN [W |-> W, ret |-> "NULL"]
    ELSE
    LET model == "hh"
        W1 == CallocStruct(W, model)
    IN  IF failAt = 2
        THEN [W |-> HodgkinHuxleyFreeModel(W1, model).W, ret |-> "NULL"]
        ELSE
        LET W2 == [Calloc(W1, HhSV, 4)
                     EXCEPT !.obj[model].stateVector = Ptr(HhSV, 0),
                            !.obj[model].neuron.state =
                                [v |-> Ptr(HhSV, 0), m |-> Ptr(HhSV, 1),
                                 h |-> Ptr(HhSV, 2), n |-> Ptr(HhSV, 3)]]
        IN  HhInitCurrents(HhSetInitial(W2, model), model, dt, failAt)

\* faulty variant of HodgkinHuxleySetExternalCurent: the current buffer is
\* allocated anew before the store
HodgkinHuxleySetExternalCurent_Realloc(W, model, iExt) ==
    IF model = "NULL" THEN [W |-> W, ret |-> FALSE]
    ELSE LET W1 == AllocCurrents(W, model, TRUE).W
         IN  [W |-> Wr(W1, W1.obj[model].neuron.currents.iExt, iExt), ret |-> TRUE]

HodgkinHuxleySetExternalCurent(W, model, iExt) ==
    IF model = "NULL" THEN [W |-> W, ret |-> FALSE]
    ELSE [W |-> Wr(W, W.obj[model].neuron.currents.iExt, iExt), ret |-> TRUE]

\* the return of HodgkinHuxleyUpdateModel, on the world W the integration
\* step left
HhMembrane(W, model) ==
    [W |-> W, ret |-> Rd(W, W.obj[model].neuron.state.v)]

\* faulty variant of HodgkinHuxleyUpdateModel: the ionic currents are computed
\* anew at the post-step state before the return
HodgkinHuxleyUpdateModel_Refresh(W, model) ==
    IF model = "NULL" THEN [W |-> W, ret |-> 0]
    ELSE LET W1 == RK4Calculate(W, model, W.obj[model].stateVector)
             g == W1.obj[model].integrator
         IN  HhMembrane(CallDeriv(W1, g.derivFunc, W1.obj[model].stateVector,
                                  g.slopes.k1, g.params), model)


HodgkinHuxleyUpdateModel(W, model) ==
    IF model = "NULL" THEN [W |-> W, ret |-> 0]
    ELSE HhMembrane(RK4Calculate(W, model, W.obj[model].stateVector), model)

\* a getter returning *p, or 0.0f for a NULL model
HhGet(W, model, p) ==
    IF model = "NULL" THEN [W |-> W, ret |-> 0]
    ELSE [W |-> Chk(W, p), ret |-> Rd(W, p)]

HodgkinHuxleyGetIK(W, model) ==
    HhGet(W, model, IF model = "NULL" THEN NULL ELSE W.obj[model].neuron.currents.iK)

HodgkinHuxleyGetINa(W, model) ==
    HhGet(W, model, IF model = "NULL" THEN NULL ELSE W.obj[model].neuron.currents.iNa)

HodgkinHuxleyGetILeak(W, model) ==
    HhGet(W, model, IF model = "NULL" THEN NULL ELSE W.obj[model].neuron.currents.iL)

HodgkinHuxleyGetMGate(W, model) ==
    HhGet(W, model, IF model = "NULL" THEN NULL ELSE W.obj[model].neuron.state.m)

HodgkinHuxleyGetHGate(W, model) ==
    HhGet(W, model, IF model = "NULL" THEN NULL ELSE W.obj[model].neuron.state.h)

HodgkinHuxleyGetNGate(W, model) ==
    HhGet(W, model, IF model = "NULL" THEN NULL ELSE W.obj[model].neuron.state.n)

(* ------------------------------------------------------------------ *)
(* AMPA/GABA-A synapse API; the handle `model` is "syn" or "NULL"      *)
(* ------------------------------------------------------------------ *)

SynSV == <<"syn", "sv">>

SynIB == <<"syn", "ib">>

AmpaGabaaFreeModel(W, model) ==
    IF model = "NULL" THEN [W |-> W, ret |-> FALSE]
    ELSE LET W1 == IF W.obj[model].integrator.buffer # NULL
                   THEN RK4Free(W, model) ELSE W
             W2 == Free(W1, W1.obj[model].internalBuffer)
             W3 == Free(W2, W2.obj[model].stateVector)
         IN  [W |-> FreeStruct(W3, model), ret |-> TRUE]

\* SynapseAllocMemory(model); ok tells whether calloc succeeds.  iSynPost is
\* not mapped here: it keeps the NULL of the zero-filled struct.
SynapseAllocMemory(W, model, ok) ==
    IF ~ok THEN [W |-> [W EXCEPT !.obj[model].internalBuffer = NULL], ret |-> FALSE]
    ELSE [W |-> [Calloc(W, SynIB, 12)
                   EXCEPT !.obj[model].internalBuffer = Ptr(SynIB, 0),
                          !.obj[model].synapse.state =
                              [synCurrent |-> Ptr(SynIB, 0),
                               openChannels |-> Ptr(SynIB, 1),
                               ntConcentration |-> Ptr(SynIB, 2)],
                          !.obj[model].synapse.receptor =
                              [alphaRate |-> Ptr(SynIB, 3), betaRate |-> Ptr(SynIB, 4),
                               eRev |-> Ptr(SynIB, 5), gMax |-> Ptr(SynIB, 6)],
                          !.obj[model].synapse.ntParams.vP = Ptr(SynIB, 7),
                          !.obj[model].synapse.ntParams.kP = Ptr(SynIB, 8),
                          !.obj[model].synapse.ntParams.tMax = Ptr(SynIB, 9),
                          !.obj[model].synapse.ntParams.vPre = Ptr(SynIB, 10),
                          !.obj[model].synapse.ntParams.vPost = Ptr(SynIB, 11)],
          ret |-> TRUE]

\* faulty variant of SynPreset: the preset weight is 1.0 instead of the
\* catalog's 0.0
SynPreset_UnitWeight(synType, nrnType) ==
    LET cfg == IF nrnType = "IZHIKEVICH_MODEL" THEN IZ_SYN_CFG ELSE HH_SYN_CFG
    IN  IF synType = "AMPA"
        THEN [kP |-> cfg.KP, vP |-> cfg.VP,
              alphaRate |-> cfg.ampaConnectionRate,
              betaRate |-> cfg.ampaDisconnectionRate,
              eRev |-> cfg.ampaReversalPotential,
              gMax |-> FP]
        ELSE [kP |-> cfg.KP, vP |-> cfg.VP,
              alphaRate |-> cfg.gaba_aConnectionRate,
              betaRate |-> cfg.gaba_aDisconnectionRate,
              eRev |-> cfg.gaba_aReversalPotential,
              gMax |-> FP]

\* the preset rows selected by statement 4 of AmpaGabaaInitModel
SynPreset(synType, nrnType) ==
    LET cfg == IF nrnType = "IZHIKEVICH_MODEL" THEN IZ_SYN_CFG ELSE HH_SYN_CFG
    IN  IF synType = "AMPA"
        THEN [kP |-> cfg.KP, vP |-> cfg.VP,
              alphaRate |-> cfg.ampaConnectionRate,
              betaRate |-> cfg.ampaDisconnectionRate,
              eRev |-> cfg.ampaReversalPotential,
              gMax |-> cfg.ampaMaximumConductancy]
        ELSE [kP |-> cfg.KP, vP |-> cfg.VP,
              alphaRate |-> cfg.gaba_aConnectionRate,
              betaRate |-> cfg.gaba_aDisconnectionRate,
              eRev |-> cfg.gaba_aReversalPotential,
              gMax |-> cfg.gaba_aMaximumConductancy]

\* statements 4 and 5 of AmpaGabaaInitModel
SynSetInitial(W, model, synType, nrnType) ==
    LET sy == W.obj[model].synapse
        ps == SynPreset(synType, nrnType)
        W1 == Wr(W, sy.ntParams.tMax, T_MAX)
        W2 == Wr(W1, sy.ntParams.kP, ps.kP)
        W3 == Wr(W2, sy.ntParams.vP, ps.vP)
        W4 == Wr(W3, sy.receptor.alphaRate, ps.alphaRate)
        W5 == Wr(W4, sy.receptor.betaRate, ps.betaRate)
        W6 == Wr(W5, sy.receptor.eRev, ps.eRev)
        W7 == Wr(W6, sy.receptor.gMax, ps.gMax)
        W8 == Wr(W7, sy.state.ntConcentration, DEFAULT_VALUE)
    IN  Wr(W8, sy.state.synCurrent, DEFAULT_VALUE)

\* failAt as for IzhikevichInitModel
AmpaGabaaInitModel(W, synType, nrnType, dt, failAt) ==
    IF failAt = 1 THEN [W |-> W, ret |-> "NULL"]
    ELSE
    LET model == "syn"
        W1 == CallocStruct(W, model)
    IN  IF failAt = 2
        THEN [W |-> AmpaGabaaFreeModel(W1, model).W, ret |-> "NULL"]
        ELSE
        LET W2 == [Calloc(W1, SynSV, 1)
                     EXCEPT !.obj[model].stateVector = Ptr(SynSV, 0),
                            !.obj[model].synapse.state.openChannels = Ptr(SynSV, 0)]
            W3 == Wr(W2, Ptr(SynSV, 0), DEFAULT_VALUE)
            am == SynapseAllocMemory(W3, model, failAt # 3)
        IN  IF ~am.ret
            THEN [W |-> AmpaGabaaFreeModel(am.W, model).W, ret |-> "NULL"]
            ELSE
            LET W4 == SynSetInitial(am.W, model, synType, nrnType)
                rk == RK4Init(W4, model, "AmpaGabaaDerivatives", 1, dt, failAt # 4)
            IN  IF ~rk.ret
                THEN [W |-> AmpaGabaaFreeModel(rk.W, model).W, ret |-> "NULL"]
                ELSE [W |-> rk.W, ret |-> model]

\* the current computation, accumulation and return of AmpaGabaaUpdateModel,
\* on the world W the integration step left
SynCurrentStep(W, model) ==
    LET sy == W.obj[model].synapse
        r == Rd(W, W.obj[model].stateVector)
        gMax == Rd(W, sy.receptor.gMax)
        eRev == Rd(W, sy.receptor.eRev)
        vPost == IF Rd(W, sy.ntParams.vPost) # 0
                 THEN Rd(W, sy.ntParams.vPost) ELSE DEFAULT_V_POST
        iSyn == Mul(Mul(gMax, r), eRev - vPost)
        W2 == Wr(Chk(W, sy.ntParams.vPost), sy.state.synCurrent, iSyn)
        W3 == Log(W2, [ev |-> "isyn", r |-> r, vPost |-> vPost, iSyn |-> iSyn])
    IN  IF sy.ntParams.iSynPost # NULL
        THEN [W |-> Wr(Chk(W3, sy.ntParams.iSynPost), sy.ntParams.iSynPost,
                       Rd(W3, sy.ntParams.iSynPost) + iSyn),
              ret |-> TRUE]
        ELSE [W |-> W3, ret |-> TRUE]

\* faulty variant of AmpaGabaaUpdateModel: the current is computed and injected
\* before the integration step
AmpaGabaaUpdateModel_CurrentFirst(W, model) ==
    IF model = "NULL" THEN [W |-> W, ret |-> FALSE]
    ELSE LET W1 == SynCurrentStep(W, model).W
         IN  [W |-> RK4Calculate(W1, model, W1.obj[model].stateVector), ret |-> TRUE]


AmpaGabaaUpdateModel(W, model) ==
    IF model = "NULL" THEN [W |-> W, ret |-> FALSE]
    ELSE SynCurrentStep(RK4Calculate(W, model, W.obj[model].stateVector), model)

\* faulty variant of AmpaGabaaConnectSynapse: each reference is tested and
\* installed in turn, so that a call that fails has installed the earlier ones
AmpaGabaaConnectSynapse_Partial(W, model, preVolt, postVolt, postIsyn) ==
    IF model = "NULL" \/ preVolt = NULL THEN [W |-> W, ret |-> FALSE]
    ELSE LET W1 == [W EXCEPT !.obj[model].synapse.ntParams.vPre = preVolt]
         IN  IF postVolt = NULL THEN [W |-> W1, ret |-> FALSE]
             ELSE LET W2 == [W1 EXCEPT !.obj[model].synapse.ntParams.vPost = postVolt]
                  IN  IF postIsyn = NULL THEN [W |-> W2, ret |-> FALSE]
                      ELSE [W |-> [W2 EXCEPT !.obj[model].synapse.ntParams.iSynPost
                                                 = postIsyn],
                            ret |-> TRUE]

AmpaGabaaConnectSynapse(W, model, preVolt, postVolt, postIsyn) ==
    IF model = "NULL" \/ preVolt = NULL \/ postVolt = NULL \/ postIsyn = NULL
    THEN [W |-> W, ret |-> FALSE]
    ELSE [W |-> [W EXCEPT !.obj[model].synapse.ntParams.vPre = preVolt,
                          !.obj[model].synapse.ntParams.vPost = postVolt,
                          !.obj[model].synapse.ntParams.iSynPost = postIsyn],
          ret |-> TRUE]

AmpaGabaaGetSynapticCurrent(W, model) ==
    IF model = "NULL" THEN [W |-> W, ret |-> 0]
    ELSE [W |-> Chk(W, W.obj[model].synapse.state.synCurrent),
          ret |-> Rd(W, W.obj[model].synapse.state.synCurrent)]

\* faulty variant of AmpaGabaaSetMaximumConductancy: the handle is not tested,
\* so that a null handle is dereferenced
AmpaGabaaSetMaximumConductancy_NoCheck(W, model, g) ==
    IF model = "NULL" THEN [W |-> [W EXCEPT !.fault = TRUE], ret |-> TRUE]
    ELSE [W |-> Wr(W, W.obj[model].synapse.receptor.gMax, g), ret |-> TRUE]

AmpaGabaaSetMaximumConductancy(W, model, g) ==
    IF model = "NULL" THEN [W |-> W, ret |-> FALSE]
    ELSE [W |-> Wr(W, W.obj[model].synapse.receptor.gMax, g), ret |-> TRUE]

(* ------------------------------------------------------------------ *)
(* The application: the context the GUI and the simulation loop share  *)
(* (AppContext), the plot axes (G_PLOT_STATE) and the simulation logic *)
(* ------------------------------------------------------------------ *)

\* capacity of every plot buffer (50001 in the source, scaled down)
K_MAX_PLOT_POINTS == 7

\* the time step 0.01f, as the model's fixed-point number
K_DT == 10

\* the binary32 value of 0.01f, 0x3C23D70A, as a multiple of 2^-30; the
\* simulation clock is a binary32 number held exactly in this unit
K_DT_F32 == 10737418

\* values of NeuronModel
IZHIKEVICH_MODEL == 0

HODGKIN_HUXLEY_MODEL == 1

\* values of FocusedTab
FOCUS_NONE == 0

FOCUS_CONTROLS == 1

FOCUS_MAIN_DISPLAY == 2

FOCUS_AUXILIARY_DISPLAY == 3

\* values of ControlFocus
CONTROL_FOCUS_NONE == 0

CONTROL_FOCUS_START_BUTTON == 1

CONTROL_FOCUS_PAUSE_BUTTON == 2

CONTROL_FOCUS_RESET_BUTTON == 3

CONTROL_FOCUS_MODEL_SELECTOR == 4

CONTROL_FOCUS_IZ_MODEL_SELECTOR == 5

CONTROL_FOCUS_CURRENT_SLIDER == 6

\* the unit in the last place of the binary32 number x (x > 0 a multiple of
\* 2^-30, u a power of two): the least u with x < 2^24 * u
RECURSIVE Ulp(_, _)
Ulp(x, u) == IF x \div u < 2^24 THEN u ELSE Ulp(x, 2 * u)

\* x rounded to a binary32 number: to 24 significant bits, ties to even
F32Round(x) ==
    LET u == Ulp(x, 1)
        q == x \div u
        r == x % u
    IN  IF 2 * r < u \/ (2 * r = u /\ q % 2 = 0) THEN q * u ELSE (q + 1) * u

\* the binary32 sum a + b
F32Add(a, b) == F32Round(a + b)

PlotBuffers == {"membranePotential", "phase", "MGate", "HGate", "NGate",
                "kCurrent", "naCurrent", "leakCurrent"}

\* the plot axes after PlotStateReset
PlotStateDefault ==
    [plotXMin |-> 0, plotXMax |-> 200 * FP, plotYMin |-> -80 * FP,
     plotYMax |-> 40 * FP, phaseYMin |-> -80 * FP, phaseYMax |-> 40 * FP,
     phaseXMin |-> -12 * FP, phaseXMax |-> -10 * FP, probYMin |-> 0,
     probYMax |-> FP, currentYMin |-> -20 * FP, currentYMax |-> 20 * FP]

\* the context after AppInit and PlotStateReset; the buffers, the clock and
\* the data count are zero-initialised statics
AppInit ==
    [isRunning |-> FALSE, currentTime |-> 0, dataCount |-> 0,
     externCurrent |-> 0, izModel |-> "NULL", hhModel |-> "NULL",
     activeNeuronModel |-> IZHIKEVICH_MODEL, activeIzhikevichModel |-> 0,
     focusTab |-> FOCUS_NONE, activeControlFocus |-> CONTROL_FOCUS_NONE,
     phasePlotScroll |-> <<0, 0>>,
     plotData |-> [b \in PlotBuffers |->
                      [i \in 1..K_MAX_PLOT_POINTS |-> <<0, 0>>]],
     G_PLOT_STATE |-> PlotStateDefault]

\* the clock value as the model's fixed-point number (plot axis only)
ClockFp(t) == ((t \div 2^20) * FP) \div 2^10

\* buffer[index] = sample; an index outside the buffer is out-of-bounds access
PlotWrite(A, buffer, index, sample) ==
    LET e == [ev |-> "plot", rw |-> "w", buffer |-> buffer, index |-> index,
              x |-> sample[1], y |-> sample[2]]
    IN  IF index \in 0..(K_MAX_PLOT_POINTS - 1)
        THEN [A EXCEPT !.ctx.plotData[buffer][index + 1] = sample,
                       !.W.trace = Append(@, e)]
        ELSE [A EXCEPT !.W.fault = TRUE, !.W.trace = Append(@, e)]

\* buffer[index]; outside the buffer the value read is not determined
PlotRead(A, buffer, index) ==
    IF index \in 0..(K_MAX_PLOT_POINTS - 1)
    THEN A.ctx.plotData[buffer][index + 1]
    ELSE <<0, 0>>

\* the accesses SimulationUpdateAutoScale makes to the buffers
LogRead(A, buffer, index) ==
    LET e == [ev |-> "plot", rw |-> "r", buffer |-> buffer, index |-> index,
              x |-> PlotRead(A, buffer, index)[1],
              y |-> PlotRead(A, buffer, index)[2]]
    IN  IF index \in 0..(K_MAX_PLOT_POINTS - 1)
        THEN [A EXCEPT !.W.trace = Append(@, e)]
        ELSE [A EXCEPT !.W.fault = TRUE, !.W.trace = Append(@, e)]

SimulationReset_KeepHh(A) ==
    LET c == [A.ctx EXCEPT !.isRunning = FALSE, !.currentTime = 0,
                           !.dataCount = 0]
        W1 == IF c.izModel # "NULL"
              THEN IzhikevichFreeModel(A.W, c.izModel).W ELSE A.W
    IN  [W |-> W1,
         ctx |-> [c EXCEPT !.izModel = "NULL", !.hhModel = "NULL",
                           !.phasePlotScroll = <<0, 0>>,
                           !.G_PLOT_STATE = PlotStateDefault]]

SimulationReset(A) ==
    LET c == [A.ctx EXCEPT !.isRunning = FALSE, !.currentTime = 0,
                           !.dataCount = 0]
        W1 == IF c.izModel # "NULL"
              THEN IzhikevichFreeModel(A.W, c.izModel).W ELSE A.W
        W2 == IF c.hhModel # "NULL"
              THEN HodgkinHuxleyFreeModel(W1, c.hhModel).W ELSE W1
    IN  [W |-> W2,
         ctx |-> [c EXCEPT !.izModel = "NULL", !.hhModel = "NULL",
                           !.phasePlotScroll = <<0, 0>>,
                           !.G_PLOT_STATE = PlotStateDefault]]

\* the two samples of an Izhikevich step, stored at index dataCount
IzStore(A, potential, recovery) ==
    LET index == A.ctx.dataCount
        time == A.ctx.currentTime
    IN  PlotWrite(PlotWrite(A, "membranePotential", index, <<time, potential>>),
                  "phase", index, <<recovery, potential>>)

\* r: the result of IzhikevichUpdateModel
IzStep(A, r) ==
    IzStore([A EXCEPT !.W = r.W], r.ret,
            IzhikevichGetRecovery(r.W, A.ctx.izModel).ret)

SimulationRunStepIzhikevich(A) ==
    IF A.ctx.izModel = "NULL" THEN A
    ELSE IzStep(A, IzhikevichUpdateModel(
                       IzhikevichSetExternalCurrent(
                           A.W, A.ctx.izModel, A.ctx.externCurrent).W,
                       A.ctx.izModel))

\* the seven samples of a Hodgkin-Huxley step, stored at index dataCount
HhStore(A, potential, iK, iNa, iLeak, mGateProb, nGateProb, hGateProb) ==
    LET index == A.ctx.dataCount
        time == A.ctx.currentTime
        A1 == PlotWrite(A, "membranePotential", index, <<time, potential>>)
        A2 == PlotWrite(A1, "MGate", index, <<time, mGateProb>>)
        A3 == PlotWrite(A2, "NGate", index, <<time, nGateProb>>)
        A4 == PlotWrite(A3, "HGate", index, <<time, hGateProb>>)
        A5 == PlotWrite(A4, "kCurrent", index, <<time, iK>>)
        A6 == PlotWrite(A5, "naCurrent", index, <<time, iNa>>)
    IN  PlotWrite(A6, "leakCurrent", index, <<time, iLeak>>)

\* r: the result of HodgkinHuxleyUpdateModel
HhStep(A, r) ==
    HhStore([A EXCEPT !.W = r.W], r.ret,
            HodgkinHuxleyGetIK(r.W, A.ctx.hhModel).ret,
            HodgkinHuxleyGetINa(r.W, A.ctx.hhModel).ret,
            HodgkinHuxleyGetILeak(r.W, A.ctx.hhModel).ret,
            HodgkinHuxleyGetMGate(r.W, A.ctx.hhModel).ret,
            HodgkinHuxleyGetNGate(r.W, A.ctx.hhModel).ret,
            HodgkinHuxleyGetHGate(r.W, A.ctx.hhModel).ret)

SimulationRunStepHodgkinHuxley(A) ==
    IF A.ctx.hhModel = "NULL" THEN A
    ELSE HhStep(A, HodgkinHuxleyUpdateModel(
                       HodgkinHuxleySetExternalCurent(
                           A.W, A.ctx.hhModel, A.ctx.externCurrent).W,
                       A.ctx.hhModel))

\* if (y > hi) hi = y
RaiseTo(hi, y) == IF y > hi THEN y ELSE hi

\* if (y < lo) lo = y - margin
LowerTo(lo, y, margin) == IF y < lo THEN y - margin ELSE lo

\* the axes after the main plot has been scaled to the sample memPotential
ScaleMain(P, time, memPotential) ==
    [P EXCEPT !.plotXMax = ClockFp(time),
              !.plotYMax = RaiseTo(@, memPotential[2]),
              !.plotYMin = LowerTo(@, memPotential[2], 2 * FP)]

ScalePhase(P, phase) ==
    [P EXCEPT !.phaseXMax = RaiseTo(@, phase[1]),
              !.phaseXMin = LowerTo(@, phase[1], 0),
              !.phaseYMax = RaiseTo(@, phase[2]),
              !.phaseYMin = LowerTo(@, phase[2], 2 * FP)]

ScaleCurrents(P, iK, iNa, iLeak) ==
    [P EXCEPT !.currentYMax = RaiseTo(RaiseTo(RaiseTo(@, iK[2]), iNa[2]), iLeak[2]),
              !.currentYMin = LowerTo(LowerTo(LowerTo(@, iK[2], 10000 * FP),
                                              iNa[2], 10000 * FP),
                                      iLeak[2], 10000 * FP)]

SimulationUpdateAutoScale(A) ==
    LET index == A.ctx.dataCount
        time == A.ctx.currentTime
        A1 == LogRead(A, "membranePotential", index)
        P1 == ScaleMain(A.ctx.G_PLOT_STATE, time,
                        PlotRead(A, "membranePotential", index))
    IN  IF A.ctx.activeNeuronModel = IZHIKEVICH_MODEL
        THEN [LogRead(A1, "phase", index) EXCEPT
                  !.ctx.G_PLOT_STATE = ScalePhase(P1, PlotRead(A, "phase", index))]
        ELSE [LogRead(LogRead(LogRead(A1, "kCurrent", index),
                              "naCurrent", index), "leakCurrent", index) EXCEPT
                  !.ctx.G_PLOT_STATE =
                      ScaleCurrents(P1, PlotRead(A, "kCurrent", index),
                                    PlotRead(A, "naCurrent", index),
                                    PlotRead(A, "leakCurrent", index))]

\* the step of the active model
SimulationRunStep(A) ==
    IF A.ctx.activeNeuronModel = IZHIKEVICH_MODEL
    THEN SimulationRunStepIzhikevich(A)
    ELSE SimulationRunStepHodgkinHuxley(A)

\* currentTime += K_DT; dataCount++
SimulationAdvance(A) ==
    [A EXCEPT !.ctx.currentTime = F32Add(@, K_DT_F32),
              !.ctx.dataCount = @ + 1]

SimulationUpdate(A) ==
    IF ~A.ctx.isRunning THEN A
    ELSE IF A.ctx.dataCount >= K_MAX_PLOT_POINTS
         THEN [A EXCEPT !.ctx.isRunning = FALSE]
         ELSE SimulationAdvance(SimulationUpdateAutoScale(SimulationRunStep(A)))

\* the range and the keyboard step of the current slider: 0.0, 500.0, 0.01
SLIDER_MIN == 0

SLIDER_MAX == 500000

SLIDER_STEP == 10

\* a run of statements `if (IsKeyPressed(key)) x = value;` on x = cur:
\* moves is the sequence of <<key, value>>, the last pressed key wins
RECURSIVE LastPressed(_, _, _)
LastPressed(keys, cur, moves) ==
    IF moves = <<>> THEN cur
    ELSE LastPressed(keys,
                     IF moves[1][1] \in keys THEN moves[1][2] ELSE cur,
                     Tail(moves))

\* faulty variant of PanelHandleNavigation: the controls panel is left on UP
\* and RIGHT whatever control is focused
PanelHandleNavigation_Always(c, keys) ==
    LET moves ==
            IF c.focusTab = FOCUS_NONE THEN << <<"DOWN", FOCUS_CONTROLS>> >>
            ELSE IF c.focusTab = FOCUS_CONTROLS
            THEN << <<"UP", FOCUS_NONE>>, <<"RIGHT", FOCUS_MAIN_DISPLAY>> >>
            ELSE IF c.focusTab = FOCUS_MAIN_DISPLAY
            THEN << <<"UP", FOCUS_NONE>>, <<"LEFT", FOCUS_CONTROLS>>,
                    <<"DOWN", FOCUS_AUXILIARY_DISPLAY>> >>
            ELSE << <<"UP", FOCUS_MAIN_DISPLAY>>, <<"LEFT", FOCUS_CONTROLS>>,
                    <<"DOWN", FOCUS_NONE>> >>
    IN  [c EXCEPT !.focusTab = LastPressed(keys, @, moves)]


PanelHandleNavigation(c, keys) ==
    LET moves ==
            IF c.focusTab = FOCUS_NONE THEN << <<"DOWN", FOCUS_CONTROLS>> >>
            ELSE IF c.focusTab = FOCUS_CONTROLS
            THEN IF c.activeControlFocus = CONTROL_FOCUS_NONE
                 THEN << <<"UP", FOCUS_NONE>>, <<"RIGHT", FOCUS_MAIN_DISPLAY>> >>
                 ELSE <<>>
            ELSE IF c.focusTab = FOCUS_MAIN_DISPLAY
            THEN << <<"UP", FOCUS_NONE>>, <<"LEFT", FOCUS_CONTROLS>>,
                    <<"DOWN", FOCUS_AUXILIARY_DISPLAY>> >>
            ELSE << <<"UP", FOCUS_MAIN_DISPLAY>>, <<"LEFT", FOCUS_CONTROLS>>,
                    <<"DOWN", FOCUS_NONE>> >>
    IN  [c EXCEPT !.focusTab = LastPressed(keys, @, moves)]

\* the moves of the three buttons: up, down, left, right
ButtonMoves(left, right) ==
    << <<"UP", CONTROL_FOCUS_NONE>>, <<"DOWN", CONTROL_FOCUS_MODEL_SELECTOR>>,
       <<"LEFT", left>>, <<"RIGHT", right>> >>

ControlsHandleNavigation(c, keys) ==
    LET f == c.activeControlFocus
        iz == c.activeNeuronModel = IZHIKEVICH_MODEL
        moves ==
            IF f = CONTROL_FOCUS_NONE
            THEN << <<"DOWN", CONTROL_FOCUS_START_BUTTON>> >>
            ELSE IF f = CONTROL_FOCUS_START_BUTTON
            THEN ButtonMoves(CONTROL_FOCUS_RESET_BUTTON, CONTROL_FOCUS_PAUSE_BUTTON)
            ELSE IF f = CONTROL_FOCUS_PAUSE_BUTTON
            THEN ButtonMoves(CONTROL_FOCUS_START_BUTTON, CONTROL_FOCUS_RESET_BUTTON)
            ELSE IF f = CONTROL_FOCUS_RESET_BUTTON
            THEN ButtonMoves(CONTROL_FOCUS_PAUSE_BUTTON, CONTROL_FOCUS_START_BUTTON)
            ELSE IF f = CONTROL_FOCUS_MODEL_SELECTOR
            THEN << <<"UP", CONTROL_FOCUS_START_BUTTON>>,
                    <<"DOWN", IF iz THEN CONTROL_FOCUS_IZ_MODEL_SELECTOR
                              ELSE CONTROL_FOCUS_CURRENT_SLIDER>> >>
            ELSE IF f = CONTROL_FOCUS_IZ_MODEL_SELECTOR
            THEN << <<"UP", CONTROL_FOCUS_MODEL_SELECTOR>>,
                    <<"DOWN", CONTROL_FOCUS_CURRENT_SLIDER>> >>
            ELSE << <<"UP", IF iz THEN CONTROL_FOCUS_IZ_MODEL_SELECTOR
                            ELSE CONTROL_FOCUS_MODEL_SELECTOR>>,
                    <<"DOWN", CONTROL_FOCUS_NONE>> >>
    IN  IF c.focusTab # FOCUS_CONTROLS THEN c
        ELSE [c EXCEPT !.activeControlFocus = LastPressed(keys, @, moves)]

\* the external current after the slider has handled the arrow keys:
\* one step per press, clamped to the range of the slider
SliderKeys(current, keys) ==
    LET c1 == IF "LEFT" \in keys THEN current - SLIDER_STEP ELSE current
        c2 == IF "RIGHT" \in keys THEN c1 + SLIDER_STEP ELSE c1
        c3 == IF c2 < SLIDER_MIN THEN SLIDER_MIN ELSE c2
    IN  IF c3 > SLIDER_MAX THEN SLIDER_MAX ELSE c3

\* faulty variant of SelectorKeys: the index is stepped without the wrap-around
SelectorKeys_NoWrap(model, numModels, keys) ==
    LET m1 == IF "LEFT" \in keys THEN model - 1 ELSE model
    IN  IF "RIGHT" \in keys THEN m1 + 1 ELSE m1

\* a selector of numModels entries after the arrow keys: left, then right
SelectorKeys(model, numModels, keys) ==
    LET m1 == IF "LEFT" \in keys THEN (model - 1 + numModels) % numModels
              ELSE model
    IN  IF "RIGHT" \in keys THEN (m1 + 1) % numModels ELSE m1

\* the constructor of the selected model kind; failAt: the allocation that
\* fails in it (0: none)
StartModel(A, failAt) ==
    LET Built(r, k) == [W |-> r.W, ctx |-> [A.ctx EXCEPT ![k] = r.ret]]
    IN  IF A.ctx.activeNeuronModel = IZHIKEVICH_MODEL
        THEN Built(IzhikevichInitModel(A.W, A.ctx.activeIzhikevichModel,
                                       K_DT, failAt), "izModel")
        ELSE Built(HodgkinHuxleyInitModel(A.W, K_DT, failAt), "hhModel")

\* faulty variant of StartPressed: the simulation is not reset first
StartPressed_NoReset(A, failAt) ==
    IF ~A.ctx.isRunning
    THEN StartModel([A EXCEPT !.ctx.isRunning = TRUE], failAt)
    ELSE A

\* START: the key handler and the button run the same statements
StartPressed(A, failAt) ==
    LET Started(R) ==
            IF ~R.ctx.isRunning
            THEN StartModel([R EXCEPT !.ctx.isRunning = TRUE], failAt)
            ELSE R
    IN  Started(SimulationReset(A))

\* PAUSE / CONTINUE
PausePressed(A) ==
    LET simulationStarted == A.ctx.izModel # "NULL" \/ A.ctx.hhModel # "NULL"
    IN  IF simulationStarted THEN [A EXCEPT !.ctx.isRunning = ~@] ELSE A

\* RESET
ResetPressed(A) ==
    LET Stopped(R) == [R EXCEPT !.ctx.isRunning = FALSE]
    IN  Stopped(SimulationReset(A))

ControlsHandleFocusActions(A, keys, failAt) ==
    LET simulationStarted == A.ctx.izModel # "NULL" \/ A.ctx.hhModel # "NULL"
        f == A.ctx.activeControlFocus
        A1 == IF f = CONTROL_FOCUS_CURRENT_SLIDER
              THEN [A EXCEPT !.ctx.externCurrent = SliderKeys(@, keys)]
              ELSE A
    IN  IF A.ctx.focusTab # FOCUS_CONTROLS THEN A
        ELSE IF f = CONTROL_FOCUS_START_BUTTON /\ "ENTER" \in keys
        THEN StartPressed(A1, failAt)
        ELSE IF f = CONTROL_FOCUS_PAUSE_BUTTON /\ "ENTER" \in keys
        THEN PausePressed(A1)
        ELSE IF f = CONTROL_FOCUS_RESET_BUTTON /\ "ENTER" \in keys
        THEN ResetPressed(A1)
        ELSE IF f = CONTROL_FOCUS_MODEL_SELECTOR /\ ~simulationStarted
        THEN [A1 EXCEPT !.ctx.activeNeuronModel = SelectorKeys(@, 2, keys)]
        ELSE IF f = CONTROL_FOCUS_IZ_MODEL_SELECTOR /\ ~simulationStarted
        THEN [A1 EXCEPT !.ctx.activeIzhikevichModel = SelectorKeys(@, 7, keys)]
        ELSE A1

InputHanndleKeys(A, keys, failAt) ==
    ControlsHandleFocusActions(
        [A EXCEPT !.ctx = ControlsHandleNavigation(
                              PanelHandleNavigation(@, keys), keys)],
        keys, failAt)

(* ------------------------------------------------------------------ *)
(* The host: a single-threaded caller of the API.  A call step runs    *)
(* one whole API function and leaves its result in ret and its         *)
(* allocations, frees and evaluation events in the per-call logs;      *)
(* Return is the host taking the result before it makes the next call. *)
(* ------------------------------------------------------------------ *)

\* time steps handed to the constructors: the reference step K_DT = 0.01
DtSet == {10}

\* external currents handed to set-external-current: 0, 10 and 20000 (strong
\* enough to drive an Izhikevich neuron over its peak within one step)
IextSet == {0, 10000, 20000000}

SynTypes == {"AMPA", "GABA_A"}

NeuronModels == {"IZHIKEVICH_MODEL", "HODGKIN_HUXLEY_MODEL"}

\* maximum conductances handed to set-max-conductance
GSet == {0, 2000}

\* the caller-owned cells a synapse is connected to
PreCell == Ptr(EnvBlock, 0)

PostCell == Ptr(EnvBlock, 1)

IsynCell == Ptr(EnvBlock, 2)

\* values the caller writes to its pre-voltage, post-voltage and
\* synaptic-current cells
CellVals == << {0, 20000}, {0, -65000}, {0, 5000} >>

\* allocation that fails in a constructor call (0: none)
FailSet == 0..4

\* handles the host may pass for a model of kind k: NULL or its live handle
Handles(k) == {"NULL", hnd[k]}

NoRet == [op |-> "none", h |-> "NULL", val |-> 0]

Idle == ret.op = "none"

\* the world left by a call becomes the state
Commit(W) ==
    /\ heap' = W.heap
    /\ mem' = W.mem
    /\ obj' = W.obj
    /\ fault' = W.fault
    /\ allocLog' = W.allocLog
    /\ freeLog' = W.freeLog
    /\ trace' = W.trace

NoInstance == \A k \in Kinds : hnd[k] = "NULL"

\* once the host has released a model's integrator itself it only tears the
\* model down: the engine must not be used after its release
EngineUsable(model) ==
    IF model = "NULL" THEN TRUE ELSE obj[model].integrator.buffer # NULL

Init ==
    /\ heap = [b \in Blocks |-> IF b = EnvBlock THEN "live" ELSE "unalloc"]
    /\ mem = [b \in Blocks |-> IF b = EnvBlock THEN <<0, 0, 0>> ELSE <<>>]
    /\ obj = [k \in Kinds |-> ZeroObj(k)]
    /\ fault = FALSE
    /\ allocLog = <<>>
    /\ freeLog = <<>>
    /\ trace = <<>>
    /\ hnd = [k \in Kinds |-> "NULL"]
    /\ ret = NoRet
    /\ ticks = 0
    /\ ctx = AppInit
    /\ inputs = 0

Return ==
    /\ ~Idle
    /\ ret' = NoRet
    /\ allocLog' = <<>>
    /\ freeLog' = <<>>
    /\ trace' = <<>>
    /\ UNCHANGED <<heap, mem, obj, fault, hnd, ticks, ctx, inputs>>

IzInit ==
    /\ Idle
    /\ NoInstance
    /\ \E type \in 0..6, dt \in DtSet, failAt \in FailSet :
        LET Done(r) ==
                /\ Commit(r.W)
                /\ hnd' = [hnd EXCEPT !["iz"] = r.ret]
                /\ ret' = [op |-> "IzhikevichInitModel", h |-> "iz", val |-> r.ret,
                           failAt |-> failAt, type |-> type, dt |-> dt]
        IN  Done(IzhikevichInitModel(World, type, dt, failAt))
    /\ UNCHANGED <<ticks, ctx, inputs>>

IzSetExt ==
    /\ Idle
    /\ \E model \in Handles("iz"), iExt \in IextSet :
        /\ EngineUsable(model)
        /\ LET r == IzhikevichSetExternalCurrent(World, model, iExt)
           IN  /\ Commit(r.W)
               /\ ret' = [op |-> "IzhikevichSetExternalCurrent", h |-> model,
                          val |-> r.ret, arg |-> iExt]
    /\ UNCHANGED <<hnd, ticks, ctx, inputs>>

IzUpdate ==
    /\ Idle
    /\ \E model \in Handles("iz") :
        /\ EngineUsable(model)
        /\ model # "NULL" => ticks < MaxTicks
        /\ ticks' = IF model = "NULL" THEN ticks ELSE ticks + 1
        /\ LET Done(r) ==
                   /\ Commit(r.W)
                   /\ ret' = [op |-> "IzhikevichUpdateModel", h |-> model, val |-> r.ret]
           IN  Done(IzhikevichUpdateModel(World, model))
    /\ UNCHANGED <<hnd, ctx, inputs>>

IzGetRecovery ==
    /\ Idle
    /\ \E model \in Handles("iz") :
        /\ EngineUsable(model)
        /\ LET r == IzhikevichGetRecovery(World, model)
           IN  /\ Commit(r.W)
               /\ ret' = [op |-> "IzhikevichGetRecovery", h |-> model, val |-> r.ret]
    /\ UNCHANGED <<hnd, ticks, ctx, inputs>>

\* the handle must not be used after release: the host drops it
IzFree ==
    /\ Idle
    /\ \E model \in Handles("iz") :
        LET r == IzhikevichFreeModel(World, model)
        IN  /\ Commit(r.W)
            /\ ret' = [op |-> "IzhikevichFreeModel", h |-> model, val |-> r.ret]
            /\ hnd' = IF model = "NULL" THEN hnd ELSE [hnd EXCEPT !["iz"] = "NULL"]
    /\ UNCHANGED <<ticks, ctx, inputs>>

HhInit ==
    /\ Idle
    /\ NoInstance
    /\ \E dt \in DtSet, failAt \in FailSet :
        LET Done(r) ==
                /\ Commit(r.W)
                /\ hnd' = [hnd EXCEPT !["hh"] = r.ret]
                /\ ret' = [op |-> "HodgkinHuxleyInitModel", h |-> "hh", val |-> r.ret,
                           failAt |-> failAt, dt |-> dt]
        IN  Done(HodgkinHuxleyInitModel(World, dt, failAt))
    /\ UNCHANGED <<ticks, ctx, inputs>>

HhSetExt ==
    /\ Idle
    /\ \E model \in Handles("hh"), iExt \in IextSet :
        /\ EngineUsable(model)
        /\ LET r == HodgkinHuxleySetExternalCurent(World, model, iExt)
           IN  /\ Commit(r.W)
               /\ ret' = [op |-> "HodgkinHuxleySetExternalCurent", h |-> model,
                          val |-> r.ret, arg |-> iExt]
    /\ UNCHANGED <<hnd, ticks, ctx, inputs>>

HhUpdate ==
    /\ Idle
    /\ \E model \in Handles("hh") :
        /\ EngineUsable(model)
        /\ model # "NULL" => ticks < MaxTicks
        /\ ticks' = IF model = "NULL" THEN ticks ELSE ticks + 1
        /\ LET Done(r) ==
                   /\ Commit(r.W)
                   /\ ret' = [op |-> "HodgkinHuxleyUpdateModel", h |-> model, val |-> r.ret]
           IN  Done(HodgkinHuxleyUpdateModel(World, model))
    /\ UNCHANGED <<hnd, ctx, inputs>>

HhGetters ==
    {"HodgkinHuxleyGetIK", "HodgkinHuxleyGetINa", "HodgkinHuxleyGetILeak",
     "HodgkinHuxleyGetMGate", "HodgkinHuxleyGetHGate", "HodgkinHuxleyGetNGate"}

HhCallGetter(W, g, model) ==
    CASE g = "HodgkinHuxleyGetIK" -> HodgkinHuxleyGetIK(W, model)
      [] g = "HodgkinHuxleyGetINa" -> HodgkinHuxleyGetINa(W, model)
      [] g = "HodgkinHuxleyGetILeak" -> HodgkinHuxleyGetILeak(W, model)
      [] g = "HodgkinHuxleyGetMGate" -> HodgkinHuxleyGetMGate(W, model)
      [] g = "HodgkinHuxleyGetHGate" -> HodgkinHuxleyGetHGate(W, model)
      [] OTHER -> HodgkinHuxleyGetNGate(W, model)

HhGetAny ==
    /\ Idle
    /\ \E model \in Handles("hh"), g \in HhGetters :
        /\ EngineUsable(model)
        /\ LET r == HhCallGetter(World, g, model)
           IN  /\ Commit(r.W)
               /\ ret' = [op |-> g, h |-> model, val |-> r.ret]
    /\ UNCHANGED <<hnd, ticks, ctx, inputs>>

HhFree ==
    /\ Idle
    /\ \E model \in Handles("hh") :
        LET r == HodgkinHuxleyFreeModel(World, model)
        IN  /\ Commit(r.W)
            /\ ret' = [op |-> "HodgkinHuxleyFreeModel", h |-> model, val |-> r.ret]
            /\ hnd' = IF model = "NULL" THEN hnd ELSE [hnd EXCEPT !["hh"] = "NULL"]
    /\ UNCHANGED <<ticks, ctx, inputs>>

SynInit ==
    /\ Idle
    /\ NoInstance
    /\ \E synType \in SynTypes, nrnType \in NeuronModels, dt \in DtSet,
          failAt \in FailSet :
        LET Done(r) ==
                /\ Commit(r.W)
                /\ hnd' = [hnd EXCEPT !["syn"] = r.ret]
                /\ ret' = [op |-> "AmpaGabaaInitModel", h |-> "syn", val |-> r.ret,
                           failAt |-> failAt, synType |-> synType, nrnType |-> nrnType,
                           dt |-> dt]
        IN  Done(AmpaGabaaInitModel(World, synType, nrnType, dt, failAt))
    /\ UNCHANGED <<ticks, ctx, inputs>>

\* the references handed to connect: the caller's cells, or one of them NULL
ConnectArgs ==
    {<<PreCell, PostCell, IsynCell>>, <<NULL, PostCell, IsynCell>>,
     <<PreCell, NULL, IsynCell>>, <<PreCell, PostCell, NULL>>}

SynConnect ==
    /\ Idle
    /\ \E model \in Handles("syn"), a \in ConnectArgs :
        /\ EngineUsable(model)
        /\ LET r == AmpaGabaaConnectSynapse(World, model, a[1], a[2], a[3])
           IN  /\ Commit(r.W)
               /\ ret' = [op |-> "AmpaGabaaConnectSynapse", h |-> model,
                          val |-> r.ret, args |-> a]
    /\ UNCHANGED <<hnd, ticks, ctx, inputs>>

SynSetG ==
    /\ Idle
    /\ \E model \in Handles("syn"), g \in GSet :
        /\ EngineUsable(model)
        /\ LET r == AmpaGabaaSetMaximumConductancy(World, model, g)
           IN  /\ Commit(r.W)
               /\ ret' = [op |-> "AmpaGabaaSetMaximumConductancy", h |-> model,
                          val |-> r.ret, arg |-> g]
    /\ UNCHANGED <<hnd, ticks, ctx, inputs>>

\* pre records what the caller's cells held when the call was made
SynUpdate ==
    /\ Idle
    /\ \E model \in Handles("syn") :
        /\ EngineUsable(model)
        /\ model # "NULL" => ticks < MaxTicks
        /\ ticks' = IF model = "NULL" THEN ticks ELSE ticks + 1
        /\ LET Done(r) ==
                   /\ Commit(r.W)
                   /\ ret' = [op |-> "AmpaGabaaUpdateModel", h |-> model, val |-> r.ret,
                              pre |-> mem[EnvBlock]]
           IN  Done(AmpaGabaaUpdateModel(World, model))
    /\ UNCHANGED <<hnd, ctx, inputs>>

SynGetCurrent ==
    /\ Idle
    /\ \E model \in Handles("syn") :
        /\ EngineUsable(model)
        /\ LET r == AmpaGabaaGetSynapticCurrent(World, model)
           IN  /\ Commit(r.W)
               /\ ret' = [op |-> "AmpaGabaaGetSynapticCurrent", h |-> model,
                          val |-> r.ret]
    /\ UNCHANGED <<hnd, ticks, ctx, inputs>>

\* the caller's cells live as long as the synapse coupled to them: the host
\* starts the next synapse on fresh (zeroed) cells
SynFree ==
    /\ Idle
    /\ \E model \in Handles("syn") :
        LET r == AmpaGabaaFreeModel(World, model)
        IN  /\ Commit(IF model = "NULL" THEN r.W
                      ELSE [r.W EXCEPT !.mem[EnvBlock] = <<0, 0, 0>>])
            /\ ret' = [op |-> "AmpaGabaaFreeModel", h |-> model, val |-> r.ret]
            /\ hnd' = IF model = "NULL" THEN hnd ELSE [hnd EXCEPT !["syn"] = "NULL"]
    /\ UNCHANGED <<ticks, ctx, inputs>>

\* the caller writes one of its cells (the voltages and the synaptic-current
\* accumulator of the neurons the synapse couples) between two calls
EnvSet ==
    /\ Idle
    /\ hnd["syn"] # "NULL"
    /\ EngineUsable("syn")
    /\ ticks < MaxTicks
    /\ \E c \in 0..2 : \E x \in CellVals[c + 1] :
        /\ x # mem[EnvBlock][c + 1]
        /\ mem' = [mem EXCEPT ![EnvBlock][c + 1] = x]
    /\ UNCHANGED <<heap, obj, fault, allocLog, freeLog, trace, hnd, ret, ticks, ctx, inputs>>

\* the synaptic currents a coupled synapse may have left in a neuron's slot
IsynVals == {0, 5000}

\* the slot currents.Isyn (Izhikevich) or currents.iSyn (Hodgkin-Huxley) of the
\* neuron model k
IsynSlot(k) ==
    IF k = "iz" THEN obj[k].neuron.currents.Isyn ELSE obj[k].neuron.currents.iSyn

\* the host stores a synaptic current in a live neuron's slot between two
\* calls, as a synapse connected to that slot does
IsynSet ==
    /\ Idle
    /\ ticks < MaxTicks
    /\ \E k \in {"iz", "hh"} : \E x \in IsynVals :
        /\ hnd[k] # "NULL"
        /\ EngineUsable(k)
        /\ x # Rd(World, IsynSlot(k))
        /\ mem' = Wr(World, IsynSlot(k), x).mem
    /\ UNCHANGED <<heap, obj, fault, allocLog, freeLog, trace, hnd, ret, ticks, ctx, inputs>>

\* the host releases a model's integrator itself: RK4Free(&model->integrator),
\* or RK4Free(NULL)
EngineFree ==
    /\ Idle
    /\ \E k \in {"NULL"} \cup {h \in Kinds : hnd[h] # "NULL"} :
        /\ Commit(RK4Free(World, k))
        /\ ret' = [op |-> "RK4Free", h |-> k, val |-> 0]
    /\ UNCHANGED <<hnd, ticks, ctx, inputs>>

Next ==
    \/ Return
    \/ IzInit
    \/ IzSetExt
    \/ IzUpdate
    \/ IzGetRecovery
    \/ IzFree
    \/ HhInit
    \/ HhSetExt
    \/ HhUpdate
    \/ HhGetAny
    \/ HhFree
    \/ SynInit
    \/ SynConnect
    \/ SynSetG
    \/ SynUpdate
    \/ SynGetCurrent
    \/ SynFree
    \/ EnvSet
    \/ IsynSet
    \/ EngineFree

Spec == Init /\ [][Next]_vars

(* ------------------------------------------------------------------ *)
(* The rate functions called on their own                              *)
(* ------------------------------------------------------------------ *)

\* the voltages handed to the rate functions: a sweep in steps of 10 mV, the
\* two singular voltages and their neighbours one resolution step away
VoltSet ==
    {-100000 + 10000 * i : i \in 0..20}
        \cup {24999, 25000, 25001, 9999, 10000, 10001}

RateFns == {"AlphaM", "BetaM", "AlphaH", "BetaH", "AlphaN", "BetaN"}

CallRate(fn, voltage) ==
    CASE fn = "AlphaM" -> AlphaM(voltage)
      [] fn = "BetaM" -> BetaM(voltage)
      [] fn = "AlphaH" -> AlphaH(voltage)
      [] fn = "BetaH" -> BetaH(voltage)
      [] fn = "AlphaN" -> AlphaN(voltage)
      [] fn = "BetaN" -> BetaN(voltage)

\* one call fn(voltage); ret keeps the argument and the value returned
RateCall ==
    /\ Idle
    /\ \E fn \in RateFns, voltage \in VoltSet :
        ret' = [op |-> fn, h |-> "NULL", val |-> CallRate(fn, voltage),
                arg |-> voltage]
    /\ UNCHANGED <<heap, mem, obj, fault, allocLog, freeLog, trace, hnd, ticks, ctx, inputs>>

NextRates ==
    \/ RateCall
    \/ Return

SpecRates == Init /\ [][NextRates]_vars

(* ------------------------------------------------------------------ *)
(* One run of a regular-spiking Izhikevich neuron under a constant      *)
(* external current, up to the first spike it reports                   *)
(* ------------------------------------------------------------------ *)

\* the advance calls of the run
RunSteps == 1000

REGULAR_SPIKING == 4

\* the external current of the run, 10.0
RunCurrent == 10000

\* the world at the start of a call: the logs of the call before are dropped
Fresh == [World EXCEPT !.allocLog = <<>>, !.freeLog = <<>>, !.trace = <<>>]

RunConstruct ==
    /\ Idle
    /\ NoInstance
    /\ ticks = 0
    /\ \E dt \in DtSet :
        LET Done(r) ==
                /\ Commit(r.W)
                /\ hnd' = [hnd EXCEPT !["iz"] = r.ret]
                /\ ret' = [op |-> "IzhikevichInitModel", h |-> "iz", val |-> r.ret,
                           failAt |-> 0, type |-> REGULAR_SPIKING, dt |-> dt]
        IN  Done(IzhikevichInitModel(World, REGULAR_SPIKING, dt, 0))
    /\ UNCHANGED <<ticks, ctx, inputs>>

\* set-external-current followed by advance, while no spike has been reported
RunStep ==
    /\ hnd["iz"] = "iz"
    /\ \/ ret.op = "IzhikevichInitModel"
       \/ ret.op = "IzhikevichUpdateModel" /\ ret.val # IZHIKEVICH_SPIKE_PEAK
    /\ ticks < RunSteps
    /\ ticks' = ticks + 1
    /\ LET Done(r) ==
               /\ Commit(r.W)
               /\ ret' = [op |-> "IzhikevichUpdateModel", h |-> "iz", val |-> r.ret]
       IN  Done(IzhikevichUpdateModel(
                    IzhikevichSetExternalCurrent(Fresh, "iz", RunCurrent).W, "iz"))
    /\ UNCHANGED <<hnd, ctx, inputs>>

NextRun ==
    \/ RunConstruct
    \/ RunStep

SpecRun == Init /\ [][NextRun]_vars

(* ------------------------------------------------------------------ *)
(* One run of a Hodgkin-Huxley neuron from its initial condition under  *)
(* an external current that the host may change during the run          *)
(* ------------------------------------------------------------------ *)

\* the advance calls of the run
HhRunSteps == 1200

\* the advance calls between two changes of the external current
HoldSteps == 300

\* the external currents of the run: the ends and the middle of the range
\* [0.0, 500.0] of the current slider
HhCurrents == {0, 250000, 500000}

HhRunConstruct ==
    /\ Idle
    /\ NoInstance
    /\ ticks = 0
    /\ \E dt \in DtSet :
        LET Done(r) ==
                /\ Commit(r.W)
                /\ hnd' = [hnd EXCEPT !["hh"] = r.ret]
                /\ ret' = [op |-> "HodgkinHuxleyInitModel", h |-> "hh", val |-> r.ret,
                           failAt |-> 0, dt |-> dt]
        IN  Done(HodgkinHuxleyInitModel(World, dt, 0))
    /\ UNCHANGED <<ticks, ctx, inputs>>

\* set-external-current, advance and the three gate accessors; the current is
\* a new one every HoldSteps calls and the one in place otherwise
HhRunStep ==
    /\ hnd["hh"] = "hh"
    /\ ret.op \in {"HodgkinHuxleyInitModel", "HodgkinHuxleyUpdateModel"}
    /\ ticks < HhRunSteps
    /\ ticks' = ticks + 1
    /\ \E iExt \in IF ticks % HoldSteps = 0 THEN HhCurrents ELSE {mem[HhIB][5]} :
        LET Done(r) ==
                /\ Commit(r.W)
                /\ ret' = [op |-> "HodgkinHuxleyUpdateModel", h |-> "hh",
                           val |-> r.ret,
                           m |-> HodgkinHuxleyGetMGate(r.W, "hh").ret,
                           hGate |-> HodgkinHuxleyGetHGate(r.W, "hh").ret,
                           n |-> HodgkinHuxleyGetNGate(r.W, "hh").ret]
        IN  Done(HodgkinHuxleyUpdateModel(
                     HodgkinHuxleySetExternalCurent(Fresh, "hh", iExt).W, "hh"))
    /\ UNCHANGED <<hnd, ctx, inputs>>

NextHhRun ==
    \/ HhRunConstruct
    \/ HhRunStep

SpecHhRun == Init /\ [][NextHhRun]_vars

(* ------------------------------------------------------------------ *)
(* The application at run time: the frames of the main loop.  A frame  *)
(* handles the keys, runs SimulationUpdate and draws the screen, whose *)
(* widgets handle the mouse; a frame without a key or a click leaves   *)
(* the context alone, so the three parts are steps of their own.       *)
(* ------------------------------------------------------------------ *)

\* the ticks that record a sample, over all runs
MaxFrames == 8

\* the frames with a key press or a click, over all runs
MaxInputs == 3

\* the keys reported as pressed in one frame
KeySets == {{"UP"}, {"DOWN"}, {"LEFT"}, {"RIGHT"}, {"ENTER"},
            {"DOWN", "ENTER"}}

\* a frame with a key press or a click
Input ==
    /\ inputs < MaxInputs
    /\ inputs' = inputs + 1

\* external currents set with the mouse: the low end of the slider and 10.0
CurrentSet == {SLIDER_MIN, 10 * FP}

\* allocation that fails in the constructor START calls (0: none)
StartFail == {0, 2}

\* the application and the heap at the start of a handler
App == [W |-> Fresh, ctx |-> ctx]

\* the window is open until the loop has ended
Open == ret.op # "WindowClose"

\* the handler op[1], given the keys op[2], leaves the application as A
Leave(A, op) ==
    /\ Commit(A.W)
    /\ ctx' = A.ctx
    /\ hnd' = [hnd EXCEPT !["iz"] = A.ctx.izModel, !["hh"] = A.ctx.hhModel]
    /\ ret' = [op |-> op[1], h |-> "NULL", val |-> 0, keys |-> op[2]]

KeysFrame ==
    /\ Open
    /\ Input
    /\ \E keys \in KeySets, failAt \in StartFail :
        Leave(InputHanndleKeys(App, keys, failAt), <<"InputHanndleKeys", keys>>)
    /\ UNCHANGED ticks

SimTick ==
    /\ Open
    /\ ticks < MaxFrames
    /\ Leave(SimulationUpdate(App), <<"SimulationUpdate", {}>>)
    /\ ticks' = IF ctx'.dataCount # ctx.dataCount THEN ticks + 1 ELSE ticks
    /\ UNCHANGED inputs

ButtonStart ==
    /\ Open
    /\ Input
    /\ \E failAt \in StartFail : Leave(StartPressed(App, failAt), <<"START", {}>>)
    /\ UNCHANGED ticks

\* the button is disabled while no model exists
ButtonPause ==
    /\ Open
    /\ Input
    /\ Leave(PausePressed(App), <<"PAUSE", {}>>)
    /\ UNCHANGED ticks

ButtonReset ==
    /\ Open
    /\ Input
    /\ Leave(ResetPressed(App), <<"RESET", {}>>)
    /\ UNCHANGED ticks

\* the slider bar sets the external current to the value under the mouse
SliderBar ==
    /\ Open
    /\ Input
    /\ \E value \in CurrentSet \ {ctx.externCurrent} :
        Leave([App EXCEPT !.ctx.externCurrent = value], <<"GuiSliderBar", {}>>)
    /\ UNCHANGED ticks

\* a click on the model combo box steps it to its next entry; the combo
\* boxes are disabled while a model exists
ComboNeuronModel ==
    /\ Open
    /\ Input
    /\ ctx.izModel = "NULL" /\ ctx.hhModel = "NULL"
    /\ Leave([App EXCEPT !.ctx.activeNeuronModel = (@ + 1) % 2], <<"GuiComboBox", {}>>)
    /\ UNCHANGED ticks

\* the preset combo box is drawn for the Izhikevich model only
ComboIzhikevichModel ==
    /\ Open
    /\ Input
    /\ ctx.izModel = "NULL" /\ ctx.hhModel = "NULL"
    /\ ctx.activeNeuronModel = IZHIKEVICH_MODEL
    /\ Leave([App EXCEPT !.ctx.activeIzhikevichModel = (@ + 1) % 7], <<"GuiComboBox", {}>>)
    /\ UNCHANGED ticks

\* the loop ends: main resets the simulation and returns
WindowClose ==
    /\ Open
    /\ Input
    /\ Leave(SimulationReset(App), <<"WindowClose", {}>>)
    /\ UNCHANGED ticks

NextApp ==
    \/ KeysFrame
    \/ SimTick
    \/ ButtonStart
    \/ ButtonPause
    \/ ButtonReset
    \/ SliderBar
    \/ ComboNeuronModel
    \/ ComboIzhikevichModel
    \/ WindowClose

SpecApp == Init /\ [][NextApp]_vars





(* ------------------------------------------------------------------ *)
(* Observations on the call that has just run (ret, the per-call logs) *)
(* ------------------------------------------------------------------ *)

(* ------------------------------------------------------------------ *)
(* A coupled pair: two neurons and the synapse between them             *)
(* ------------------------------------------------------------------ *)

\* the ticks of a coupled run
CoupleTicks == 12

\* the external currents of the two neurons of a coupled run: none, one that
\* depolarises an Izhikevich neuron within a few ticks, and the strong one
CoupleCurrents == {0, 1000000, 20000000}

\* &model->neuron.state.v[0] of the neuron model k: the voltage reference a
\* caller hands to connect
VoltRef(W, k) == W.obj[k].neuron.state.v

\* the synaptic-current reference of the neuron model k
IsynRef(W, k) ==
    IF k = "iz" THEN W.obj[k].neuron.currents.Isyn ELSE W.obj[k].neuron.currents.iSyn

\* connect the synapse from the neuron pre to the neuron post
CoupleConnect(W, pre, post) ==
    AmpaGabaaConnectSynapse(W, "syn", VoltRef(W, pre), VoltRef(W, post), IsynRef(W, post))

\* the three constructors, set-max-conductance and connect, in this order
CoupleBuild ==
    /\ Idle
    /\ NoInstance
    /\ ticks = 0
    /\ \E pre \in {"iz", "hh"}, synType \in SynTypes, nrnType \in NeuronModels,
          dt \in DtSet, g \in GSet, iPre \in CoupleCurrents, iPost \in CoupleCurrents :
        LET post == IF pre = "iz" THEN "hh" ELSE "iz"
            Done(r) ==
                /\ Commit(r.W)
                /\ hnd' = [k \in Kinds |-> k]
                /\ ret' = [op |-> "AmpaGabaaConnectSynapse", h |-> "syn", val |-> r.ret,
                           pre |-> pre, post |-> post,
                           iExt |-> [k \in {"iz", "hh"} |-> IF k = pre THEN iPre ELSE iPost],
                           base |-> Rd(r.W, IsynRef(r.W, post)), sum |-> 0,
                           v |-> [k \in {"iz", "hh"} |-> Rd(r.W, VoltRef(r.W, k))]]
        IN  Done(CoupleConnect(
                     AmpaGabaaSetMaximumConductancy(
                         AmpaGabaaInitModel(
                             HodgkinHuxleyInitModel(
                                 IzhikevichInitModel(World, REGULAR_SPIKING, dt, 0).W,
                                 dt, 0).W,
                             synType, nrnType, dt, 0).W,
                         "syn", g).W,
                     pre, post))
    /\ UNCHANGED <<ticks, ctx, inputs>>

\* first step of a tick: set-external-current and advance of the Izhikevich
\* neuron; v records the voltage the advance left in the neuron
CoupleIz ==
    /\ NoInstance = FALSE /\ hnd["syn"] = "syn"
    /\ ret.op \in {"AmpaGabaaConnectSynapse", "AmpaGabaaUpdateModel"}
    /\ ticks < CoupleTicks
    /\ LET Done(r) ==
               /\ Commit(r.W)
               /\ ret' = [ret EXCEPT !.op = "IzhikevichUpdateModel", !.h = "iz",
                                     !.val = r.ret,
                                     !.v["iz"] = Rd(r.W, VoltRef(r.W, "iz"))]
       IN  Done(IzhikevichUpdateModel(
                    IzhikevichSetExternalCurrent(Fresh, "iz", ret.iExt["iz"]).W, "iz"))
    /\ UNCHANGED <<hnd, ticks, ctx, inputs>>

\* second step of a tick: set-external-current and advance of the
\* Hodgkin-Huxley neuron
CoupleHh ==
    /\ hnd["syn"] = "syn"
    /\ ret.op = "IzhikevichUpdateModel"
    /\ LET Done(r) ==
               /\ Commit(r.W)
               /\ ret' = [ret EXCEPT !.op = "HodgkinHuxleyUpdateModel", !.h = "hh",
                                     !.val = r.ret,
                                     !.v["hh"] = Rd(r.W, VoltRef(r.W, "hh"))]
       IN  Done(HodgkinHuxleyUpdateModel(
                    HodgkinHuxleySetExternalCurent(Fresh, "hh", ret.iExt["hh"]).W, "hh"))
    /\ UNCHANGED <<hnd, ticks, ctx, inputs>>

\* last step of a tick: advance of the synapse; sum adds up what the current
\* accessor reports after each advance
CoupleSyn ==
    /\ hnd["syn"] = "syn"
    /\ ret.op = "HodgkinHuxleyUpdateModel"
    /\ ticks' = ticks + 1
    /\ LET Done(r) ==
               /\ Commit(r.W)
               /\ ret' = [ret EXCEPT !.op = "AmpaGabaaUpdateModel", !.h = "syn",
                                     !.val = r.ret,
                                     !.sum = @ + AmpaGabaaGetSynapticCurrent(r.W, "syn").ret]
       IN  Done(AmpaGabaaUpdateModel(Fresh, "syn"))
    /\ UNCHANGED <<hnd, ctx, inputs>>

NextCouple ==
    \/ CoupleBuild
    \/ CoupleIz
    \/ CoupleHh
    \/ CoupleSyn

SpecCouple == Init /\ [][NextCouple]_vars

(* ------------------------------------------------------------------ *)
(* The keyboard alone: frames of key presses, no ticks, no mouse        *)
(* ------------------------------------------------------------------ *)

\* slider steps the keyboard may raise the external current by
MaxSliderSteps == 2

Arrows == {"UP", "DOWN", "LEFT", "RIGHT"}

\* the keys reported as pressed in one frame: any arrows together, or ENTER
\* alone or with one arrow
KeyFrames ==
    ((SUBSET Arrows) \ {{}}) \cup {{"ENTER"}} \cup {{"ENTER", a} : a \in Arrows}

\* one frame of the loop in which keys are pressed: InputHanndleKeys
KeysOnlyFrame ==
    /\ \E keys \in KeyFrames, failAt \in StartFail :
        LET Done(A) ==
                /\ A.ctx.externCurrent <= MaxSliderSteps * SLIDER_STEP
                /\ Leave(A, <<"InputHanndleKeys", keys>>)
        IN  Done(InputHanndleKeys(App, keys, failAt))
    /\ UNCHANGED <<ticks, inputs>>

NextKeys ==
    \/ KeysOnlyFrame

SpecKeys == Init /\ [][NextKeys]_vars

\* the events of kind ev the call logged, in order
Events(ev) == SelectSeq(trace, LAMBDA e : e.ev = ev)

\* the state vector RK4Calculate left, before anything the caller of the
\* integrator did to it
PostStep == Events("y")[1].y

IzUpdated == ret.op = "IzhikevichUpdateModel" /\ ret.h = "iz"

SynUpdated == ret.op = "AmpaGabaaUpdateModel" /\ ret.h = "syn"

\* connect has installed the caller's references
Connected == obj["syn"].synapse.ntParams.iSynPost # NULL

InitOps == {"IzhikevichInitModel", "HodgkinHuxleyInitModel", "AmpaGabaaInitModel"}

FreeOps == {"IzhikevichFreeModel", "HodgkinHuxleyFreeModel", "AmpaGabaaFreeModel"}

\* the public operations that return a float, and those that return a bool
FloatOps ==
    {"IzhikevichUpdateModel", "IzhikevichGetRecovery", "HodgkinHuxleyUpdateModel",
     "AmpaGabaaGetSynapticCurrent"} \cup HhGetters

BoolOps ==
    {"IzhikevichSetExternalCurrent", "HodgkinHuxleySetExternalCurent",
     "AmpaGabaaUpdateModel", "AmpaGabaaConnectSynapse",
     "AmpaGabaaSetMaximumConductancy"} \cup FreeOps

\* the heap blocks that belong to model instances
ModelBlocks == Kinds \X Parts

\* how often block b occurs in the log
Count(log, b) == Cardinality({i \in 1..Len(log) : log[i] = b})

(* ------------------------------------------------------------------ *)
(* Claims                                                              *)
(* ------------------------------------------------------------------ *)

\* C1: after an Izhikevich advance on a live model, if the membrane potential
\* the integration step produced is >= 30.0 the call returned exactly 30.0 and
\* the state is v = c, u = (u produced by the step) + d; otherwise the call
\* returned the post-step v and the state is the post-step state.
C1_SpikeInvariant ==
    IzUpdated =>
        LET nr == obj["iz"].neuron
            v == Rd(World, nr.state.v)
            u == Rd(World, nr.state.u)
        IN  IF PostStep[1] >= 30000
            THEN /\ ret.val = 30000
                 /\ v = Rd(World, nr.params.c)
                 /\ u = PostStep[2] + Rd(World, nr.params.d)
            ELSE /\ ret.val = PostStep[1]
                 /\ v = PostStep[1]
                 /\ u = PostStep[2]

\* an advance in which the step drove v to the peak
C1_Witness == IzUpdated /\ PostStep[1] >= 30000 /\ ret.val = 30000

\* C2: after an advance of a connected synapse the caller's accumulator holds
\* its value before the call plus g_max * r * (E_rev - postV), postV being the
\* value of the caller's post-voltage cell and r the post-step open fraction,
\* and get-synaptic-current returns that same increment.
C2_ConnectedAccumulation ==
    (SynUpdated /\ Connected) =>
        LET sy == obj["syn"].synapse
            r == PostStep[1]
            inc == Mul(Mul(Rd(World, sy.receptor.gMax), r),
                       Rd(World, sy.receptor.eRev) - ret.pre[2])
        IN  /\ mem[EnvBlock][3] = ret.pre[3] + inc
            /\ AmpaGabaaGetSynapticCurrent(World, "syn").ret = inc

\* C3: in an advance of a connected synapse every derivative evaluation uses
\* the value held by the caller's pre-voltage cell and the current formula uses
\* the value held by the caller's post-voltage cell, whatever those values are.
C3_ConnectedReadsReferences ==
    (SynUpdated /\ Connected) =>
        /\ \A i \in 1..Len(trace) :
              trace[i].ev = "f" => trace[i].vPre = ret.pre[1]
        /\ \A i \in 1..Len(trace) :
              trace[i].ev = "isyn" => trace[i].vPost = ret.pre[2]

C5_ConstructFailure ==
    (ret.op \in InitOps /\ ret.failAt # 0) =>
        /\ ret.val = "NULL"
        /\ hnd[ret.h] = "NULL"
        /\ fault = FALSE
        /\ Len(allocLog) = ret.failAt - 1
        /\ \A b \in ModelBlocks : Count(freeLog, b) = Count(allocLog, b)
        /\ \A b \in ModelBlocks : Count(allocLog, b) <= 1
        /\ \A b \in ModelBlocks : heap[b] # "live"

\* the integrator scratch fails after three allocations succeeded
C5_Witness ==
    /\ ret.op = "AmpaGabaaInitModel"
    /\ ret.failAt = 4
    /\ Len(freeLog) = 3

\* C6: a release call on a live handle whose integrator is in place frees the
\* integrator scratch, the parameter/current buffer, the state buffer and the
\* model struct, in that order and each once, without a fault, and leaves no
\* block of that model allocated; a release call on a null handle frees
\* nothing and changes nothing.
C6_ReleaseOrder ==
    [][(Idle /\ ret'.op \in FreeOps) =>
          IF ret'.h = "NULL"
          THEN /\ freeLog' = <<>>
               /\ heap' = heap /\ mem' = mem /\ obj' = obj /\ fault' = FALSE
          ELSE obj[ret'.h].integrator.buffer # NULL =>
                 /\ freeLog' = << <<ret'.h, "rk">>, <<ret'.h, "ib">>,
                                  <<ret'.h, "sv">>, <<ret'.h, "struct">> >>
                 /\ allocLog' = <<>>
                 /\ fault' = FALSE
                 /\ \A b \in ModelBlocks : heap'[b] # "live"]_vars

\* a Hodgkin-Huxley model released after it has advanced
C6_Witness ==
    /\ ret.op = "HodgkinHuxleyFreeModel"
    /\ ret.h = "hh"
    /\ Len(freeLog) = 4
    /\ ticks > 0

\* the length construction gives the state vector of a model of kind k
StateLen(k) == IF k = "iz" THEN 2 ELSE IF k = "hh" THEN 4 ELSE 1

\* the set-input, connect, set-max-conductance, advance and accessor operations
UseOps == (FloatOps \cup BoolOps) \ FreeOps

\* C7: while a model is alive its state buffer is the block allocated for it
\* at construction, of length 2 (Izhikevich), 4 (Hodgkin-Huxley) or 1
\* (synapse), and no set-input, connect, set-max-conductance, advance or
\* accessor call allocates, frees, resizes or re-points the state buffer, the
\* parameter/current buffer or the integrator scratch.
C7_BuffersFixed ==
    /\ [](\A k \in Kinds : hnd[k] # "NULL" =>
            /\ obj[k].stateVector = Ptr(<<k, "sv">>, 0)
            /\ obj[k].internalBuffer = Ptr(<<k, "ib">>, 0)
            /\ heap[<<k, "sv">>] = "live" /\ heap[<<k, "ib">>] = "live"
            /\ Len(mem[<<k, "sv">>]) = StateLen(k)
            /\ obj[k].integrator.n = StateLen(k)
            /\ obj[k].integrator.buffer \in {NULL, Ptr(<<k, "rk">>, 0)}
            /\ obj[k].integrator.buffer # NULL =>
                  /\ heap[<<k, "rk">>] = "live"
                  /\ Len(mem[<<k, "rk">>]) = 5 * StateLen(k))
    /\ [][(Idle /\ ret'.op \in UseOps) =>
            /\ allocLog' = <<>> /\ freeLog' = <<>>
            /\ heap' = heap
            /\ \A b \in ModelBlocks : Len(mem'[b]) = Len(mem[b])
            /\ \A k \in Kinds :
                  /\ obj'[k].stateVector = obj[k].stateVector
                  /\ obj'[k].internalBuffer = obj[k].internalBuffer
                  /\ obj'[k].integrator = obj[k].integrator]_vars

\* a synapse that has been connected and advanced twice
C7_Witness == SynUpdated /\ Connected /\ ticks = 2

\* C8: RK4Free on an engine that holds its scratch frees the scratch once and
\* sets the buffer pointer and the five slope pointers to NULL; RK4Free on an
\* engine already released, or on a null engine, frees nothing and changes
\* nothing; none of them faults.
C8_EngineFreeIdempotent ==
    [][(Idle /\ ret'.op = "RK4Free") =>
          /\ fault' = FALSE
          /\ allocLog' = <<>>
          /\ IF ret'.h # "NULL" /\ obj[ret'.h].integrator.buffer # NULL
             THEN /\ freeLog' = << <<ret'.h, "rk">> >>
                  /\ heap'[<<ret'.h, "rk">>] # "live"
                  /\ obj'[ret'.h].integrator.buffer = NULL
                  /\ obj'[ret'.h].integrator.slopes = ZeroSlopes
             ELSE /\ freeLog' = <<>>
                  /\ heap' = heap /\ mem' = mem /\ obj' = obj]_vars

\* RK4Free called on an engine that had already been released
C8_Witness ==
    /\ ret.op = "RK4Free"
    /\ ret.h # "NULL"
    /\ freeLog = <<>>
    /\ obj[ret.h].integrator.buffer = NULL

\* C9: an Izhikevich advance on a live model evaluates the derivative four
\* times, then completes the state update, and only then, if the post-step v is
\* at or above the peak and only then, applies the reset, once; nothing
\* follows the reset within the call, and the first evaluation of a call reads
\* the state the previous call left, so no evaluation sees a half-reset state.
C9_ResetAfterStep ==
    /\ [](IzUpdated =>
            /\ Len(trace) \in {5, 6}
            /\ \A i \in 1..4 : trace[i].ev = "f"
            /\ trace[5].ev = "y"
            /\ Len(trace) = 6 <=> PostStep[1] >= 30000
            /\ Len(trace) = 6 => trace[6].ev = "reset")
    /\ [][(Idle /\ ret'.op = "IzhikevichUpdateModel" /\ ret'.h = "iz") =>
            trace'[1].x = mem[IzSV]]_vars

\* an advance that ended with the reset
C9_Witness == IzUpdated /\ Len(trace) = 6 /\ trace[6].ev = "reset"

\* C10: an advance of a synapse on which no connect has succeeded uses -70 as
\* the pre-synaptic voltage in each of its four derivative evaluations and -70
\* as the post-synaptic voltage of the current formula, stores the post-step r
\* and I_syn = g_max * r * (E_rev + 70), returns true, and leaves the caller's
\* cells as they were.
C10_UnconnectedDefaults ==
    (SynUpdated /\ ~Connected) =>
        LET sy == obj["syn"].synapse
            r == Rd(World, obj["syn"].stateVector)
        IN  /\ Len(Events("f")) = 4
            /\ \A i \in 1..Len(trace) : trace[i].ev = "f" => trace[i].vPre = -70000
            /\ \A i \in 1..Len(trace) : trace[i].ev = "isyn" => trace[i].vPost = -70000
            /\ r = PostStep[1]
            /\ Rd(World, sy.state.synCurrent)
                 = Mul(Mul(Rd(World, sy.receptor.gMax), r),
                       Rd(World, sy.receptor.eRev) + 70000)
            /\ ret.val = TRUE
            /\ fault = FALSE
            /\ mem[EnvBlock] = ret.pre

\* an unconnected synapse advanced while the caller's cells hold other values
C10_Witness ==
    /\ SynUpdated
    /\ ~Connected
    /\ ret.pre[1] = 20000
    /\ ret.pre[2] = -65000
    /\ Rd(World, obj["syn"].synapse.receptor.gMax) = 2000

(* ------------------------------------------------------------------ *)
(* C11                                                                 *)
(* ------------------------------------------------------------------ *)

\* the synapse is alive and its weight cell holds x
SynWeightIs(x) ==
    /\ heap[SynIB] = "live"
    /\ Rd(World, obj["syn"].synapse.receptor.gMax) = x

\* C11: for both synapse types and both target neuron types a successful
\* construct leaves g_max = 0; the weight of a live synapse is changed by
\* set-max-conductance only; and an advance made while the weight is 0 computes
\* and stores I_syn = 0 whatever r and the post-synaptic voltage are, so that a
\* connected accumulator keeps the value it had before the call.
C11_ZeroWeight ==
    /\ []((ret.op = "AmpaGabaaInitModel" /\ ret.val = "syn") => SynWeightIs(0))
    /\ [][(heap[SynIB] = "live" /\ heap'[SynIB] = "live"
            /\ Rd(World, obj["syn"].synapse.receptor.gMax) # mem'[SynIB][7])
           => ret'.op = "AmpaGabaaSetMaximumConductancy"]_vars
    /\ []((SynUpdated /\ SynWeightIs(0)) =>
            /\ \A i \in 1..Len(trace) : trace[i].ev = "isyn" => trace[i].iSyn = 0
            /\ Len(Events("isyn")) = 1
            /\ Rd(World, obj["syn"].synapse.state.synCurrent) = 0
            /\ mem[EnvBlock][3] = ret.pre[3])

\* a connected synapse of weight 0 advanced with open channels, a non-zero
\* post-synaptic voltage and a non-zero accumulator
C11_Witness ==
    /\ SynUpdated
    /\ Connected
    /\ SynWeightIs(0)
    /\ PostStep[1] > 0
    /\ ret.pre[2] = -65000
    /\ ret.pre[3] = 5000

(* ------------------------------------------------------------------ *)
(* C12                                                                 *)
(* ------------------------------------------------------------------ *)

\* C12: a connect call returns true exactly when the handle and the three
\* references are all non-null.  When it returns true the three references of
\* the synapse are the three arguments and nothing else has changed; when it
\* returns false the synapse (its installed references or its unconnected
\* defaults included), the heap and the memory are what they were.
C12_ConnectAllOrNothing ==
    [][ret'.op = "AmpaGabaaConnectSynapse" =>
        LET a == ret'.args
            ok == ret'.h # "NULL" /\ a[1] # NULL /\ a[2] # NULL /\ a[3] # NULL
        IN  /\ ret'.val = ok
            /\ heap' = heap /\ mem' = mem /\ fault' = fault
            /\ IF ok
               THEN obj' = [obj EXCEPT !["syn"].synapse.ntParams.vPre = a[1],
                                       !["syn"].synapse.ntParams.vPost = a[2],
                                       !["syn"].synapse.ntParams.iSynPost = a[3]]
               ELSE obj' = obj]_vars

\* a connect with a null post-voltage reference refused on a synapse that an
\* earlier connect has coupled to the caller's cells
C12_Witness ==
    /\ ret.op = "AmpaGabaaConnectSynapse"
    /\ ret.h = "syn"
    /\ ret.args[2] = NULL
    /\ ret.val = FALSE
    /\ Connected
    /\ obj["syn"].synapse.ntParams.vPost = PostCell

(* ------------------------------------------------------------------ *)
(* C13                                                                 *)
(* ------------------------------------------------------------------ *)

\* C13: after a successful construct of preset t the model's own parameter
\* cells hold the a, b, c, d of the catalog row whose type is t, the two input
\* currents are 0, v = c - 10 and u = b * v (exactly: u * FP = b * v); and the
\* recovery accessor returns the u of the state vector.
C13_InitialCondition ==
    /\ []((ret.op = "IzhikevichInitModel" /\ ret.val = "iz") =>
            LET p == CHOOSE q \in {IZHIKEVICH_PARAMETERS[i] : i \in 1..7} :
                         q.type = ret.type
                nr == obj["iz"].neuron
            IN  /\ nr.params = [a |-> Ptr(IzIB, 0), b |-> Ptr(IzIB, 1),
                                c |-> Ptr(IzIB, 2), d |-> Ptr(IzIB, 3)]
                /\ mem[IzIB] = <<p.a, p.b, p.c, p.d, 0, 0>>
                /\ nr.currents = [Iext |-> Ptr(IzIB, 4), Isyn |-> Ptr(IzIB, 5)]
                /\ nr.state = [v |-> Ptr(IzSV, 0), u |-> Ptr(IzSV, 1)]
                /\ mem[IzSV][1] = p.c - 10000
                /\ mem[IzSV][2] * FP = p.b * mem[IzSV][1])
    /\ [][(ret'.op = "IzhikevichGetRecovery" /\ ret'.h = "iz")
            => (ret'.val = mem[IzSV][2] /\ mem' = mem)]_vars

\* the resonator preset (the only row with b = 0.26 and a negative d) constructed
C13_Witness ==
    /\ ret.op = "IzhikevichInitModel"
    /\ ret.val = "iz"
    /\ ret.type = 5
    /\ mem[IzSV] = <<-70000, -18200>>

(* ------------------------------------------------------------------ *)
(* C14                                                                 *)
(* ------------------------------------------------------------------ *)

\* C14: AlphaM(25.0) is 1.0 and AlphaN(10.0) is 0.1, the two inputs at which
\* the denominator exp(x / 10) - 1 of the quotient is 0; for every other input
\* the denominator is not 0 and the value returned is the quotient
\* x / (10 (exp(x / 10) - 1)), respectively x / (100 (exp(x / 10) - 1)).
C14_SingularityRemoval ==
    /\ ret.op = "AlphaM" =>
           IF ret.arg = 25000
           THEN ret.val = 1000 /\ QuotientDenominator(25000 - ret.arg) = 0
           ELSE /\ QuotientDenominator(25000 - ret.arg) # 0
                /\ ret.val = RateQuotient(25000 - ret.arg) \div 10
    /\ ret.op = "AlphaN" =>
           IF ret.arg = 10000
           THEN ret.val = 100 /\ QuotientDenominator(10000 - ret.arg) = 0
           ELSE /\ QuotientDenominator(10000 - ret.arg) # 0
                /\ ret.val = RateQuotient(10000 - ret.arg) \div 100

\* AlphaM called at its singular voltage
C14_Witness == ret.op = "AlphaM" /\ ret.arg = 25000 /\ ret.val = 1000

(* ------------------------------------------------------------------ *)
(* C15                                                                 *)
(* ------------------------------------------------------------------ *)

\* the world W with the integrator scratch of model k and the cells that cache
\* the ionic currents (Hodgkin-Huxley) or the synaptic current and the
\* transmitter concentration (synapse) filled with zeros; the state vector, the
\* parameters, the input currents, the references and dt are those of W
Scrubbed(W, k) ==
    LET rk == <<k, "rk">>
        ib == <<k, "ib">>
        W1 == [W EXCEPT !.mem[rk] = [i \in 1..Len(W.mem[rk]) |-> 0]]
    IN  IF k = "hh"
        THEN [W1 EXCEPT !.mem[ib][1] = 0, !.mem[ib][2] = 0, !.mem[ib][3] = 0]
        ELSE IF k = "syn"
        THEN [W1 EXCEPT !.mem[ib][1] = 0, !.mem[ib][3] = 0]
        ELSE W1

\* C15: the state vector that an advance leaves is the one RK4Calculate
\* computes from the same state vector, parameters, inputs and dt with zeroed
\* scratch and caches: what the scratch and the caches held before the call
\* has no influence on the next state.
C15_StepDeterministic ==
    [][(ret'.op \in {"IzhikevichUpdateModel", "HodgkinHuxleyUpdateModel",
                     "AmpaGabaaUpdateModel"} /\ ret'.h # "NULL") =>
         LET k == ret'.h
             sv == <<k, "sv">>
             twin == RK4Calculate(Scrubbed(World, k), k, obj[k].stateVector)
         IN  /\ Events("y")'[1].y = twin.mem[sv]
             /\ fault' = FALSE /\ twin.fault = FALSE]_vars

\* a Hodgkin-Huxley advance made on scratch and current caches that the
\* advance before it has filled
C15_Witness ==
    /\ ret.op = "HodgkinHuxleyUpdateModel"
    /\ ret.h = "hh"
    /\ trace[1].ev = "f"
    /\ trace[1].x[1] # HH_CONFIG.restingPotential
    /\ mem[<<"hh", "rk">>][1] # 0

(* ------------------------------------------------------------------ *)
(* C16                                                                 *)
(* ------------------------------------------------------------------ *)

\* C16: a set-external-current call on a live neuron returns true and changes
\* one cell only, the external current, which becomes the value passed
\* whatever it held before; the state vector, the parameters and the
\* synaptic-current slot are as they were.  Every derivative evaluation of a
\* neuron then uses I = external current + synaptic current.
C16_SetExternalCurrent ==
    /\ [][(ret'.op \in {"IzhikevichSetExternalCurrent",
                        "HodgkinHuxleySetExternalCurent"} /\ ret'.h # "NULL") =>
            LET k == ret'.h
            IN  /\ ret'.val = TRUE
                /\ mem' = [mem EXCEPT ![<<k, "ib">>][5] = ret'.arg]
                /\ heap' = heap /\ obj' = obj /\ fault' = fault]_vars
    /\ [](\A i \in 1..Len(trace) :
            (trace[i].ev = "f" /\ trace[i].fn # "AmpaGabaaDerivatives") =>
                LET k == ret.h
                    ib == mem[<<k, "ib">>]
                IN  trace[i].I = ib[5] + Rd(World, IsynSlot(k)))

\* a set-external-current call on a Hodgkin-Huxley neuron that has advanced
\* and whose synaptic-current slot is not 0
C16_Witness ==
    /\ ret.op = "HodgkinHuxleySetExternalCurent"
    /\ ret.h = "hh"
    /\ ret.arg = 10000
    /\ mem[HhIB][5] = 10000
    /\ mem[HhIB][4] = 5000
    /\ mem[HhSV][1] # HH_CONFIG.restingPotential

(* ------------------------------------------------------------------ *)
(* C17                                                                 *)
(* ------------------------------------------------------------------ *)

\* C17: a regular-spiking Izhikevich neuron with dt = 0.01 whose external
\* current is set to 10 before every advance reports 30.0 from one of its
\* first RunSteps advance calls: the run, which goes on until a call reports
\* 30.0 or RunSteps calls are made, never uses up its calls without a report of
\* 30.0, and no call of it faults.
C17_Fires ==
    /\ fault = FALSE
    /\ (IzUpdated /\ ticks = RunSteps) => ret.val = IZHIKEVICH_SPIKE_PEAK

\* the advance call that reports the spike, after the membrane potential has
\* climbed from c - 10 under the constant current
C17_Witness ==
    /\ IzUpdated
    /\ ret.val = IZHIKEVICH_SPIKE_PEAK
    /\ ticks > 100
    /\ ticks <= RunSteps
    /\ mem[IzIB][5] = RunCurrent
    /\ mem[IzSV][1] = -65000

(* ------------------------------------------------------------------ *)
(* C18                                                                 *)
(* ------------------------------------------------------------------ *)

\* C18: after every advance of a Hodgkin-Huxley neuron run from its initial
\* condition under external currents of the range [0, 500], the gate values
\* m, h and n that the accessors return are within [0, 1], and no call faults.
C18_GatesInUnitInterval ==
    /\ fault = FALSE
    /\ (ret.op = "HodgkinHuxleyUpdateModel" /\ ret.h = "hh") =>
           /\ 0 <= ret.m /\ ret.m <= FP
           /\ 0 <= ret.hGate /\ ret.hGate <= FP
           /\ 0 <= ret.n /\ ret.n <= FP
           /\ <<ret.val, ret.m, ret.hGate, ret.n>> = mem[HhSV]

\* an advance during an action potential: the sodium activation gate is more
\* than half open
C18_Witness ==
    /\ ret.op = "HodgkinHuxleyUpdateModel"
    /\ ret.h = "hh"
    /\ ret.m > 500
    /\ ret.n > 300

(* ------------------------------------------------------------------ *)
(* Claims on the application                                           *)
(* ------------------------------------------------------------------ *)

\* the neuron kinds the application constructs
AppKinds == {"iz", "hh"}

\* a step that runs SimulationReset from the state it starts in: the reset
\* at the end of the loop, the RESET button, ENTER on the focused RESET button
ResetStep ==
    \/ ret'.op \in {"WindowClose", "RESET"}
    \/ /\ ret'.op = "InputHanndleKeys" /\ ret'.keys = {"ENTER"}
       /\ ctx.focusTab = FOCUS_CONTROLS
       /\ ctx.activeControlFocus = CONTROL_FOCUS_RESET_BUTTON

\* C19: SimulationReset, from any application state, stops the simulation,
\* sets the clock and the data count to 0, frees every block of every existing
\* model exactly once and allocates nothing, leaves both handles null and no
\* model block live, and leaves the model kind, the Izhikevich preset, the
\* external current and the keyboard focus as they were; when no model exists
\* it frees nothing.
C19_SimulationReset ==
    [][ResetStep =>
        /\ ctx'.isRunning = FALSE
        /\ ctx'.currentTime = 0
        /\ ctx'.dataCount = 0
        /\ ctx'.izModel = "NULL" /\ ctx'.hhModel = "NULL"
        /\ \A k \in AppKinds, part \in Parts :
              Count(freeLog', <<k, part>>) =
                  IF ctx[k \o "Model"] # "NULL" THEN 1 ELSE 0
        /\ \A b \in ModelBlocks : heap'[b] = "unalloc"
        /\ allocLog' = <<>>
        /\ fault' = FALSE
        /\ ctx'.activeNeuronModel = ctx.activeNeuronModel
        /\ ctx'.activeIzhikevichModel = ctx.activeIzhikevichModel
        /\ ctx'.externCurrent = ctx.externCurrent
        /\ ctx'.focusTab = ctx.focusTab
        /\ ctx'.activeControlFocus = ctx.activeControlFocus
        /\ (ctx.izModel = "NULL" /\ ctx.hhModel = "NULL") =>
              freeLog' = <<>> /\ heap' = heap]_vars

\* ENTER on the focused RESET button has reset an Izhikevich run that had
\* recorded two samples or more: the four blocks of the model are freed, the
\* selected kind and the focus are in place
C19_Witness ==
    /\ ret.op = "InputHanndleKeys" /\ ret.keys = {"ENTER"}
    /\ ctx.activeControlFocus = CONTROL_FOCUS_RESET_BUTTON
    /\ Len(freeLog) = 4
    /\ ctx.activeNeuronModel = IZHIKEVICH_MODEL
    /\ ctx.plotData["membranePotential"][2][1] = K_DT_F32
    /\ ctx.dataCount = 0 /\ ~ctx.isRunning
    /\ ctx.izModel = "NULL"

\* the RESET button pressed a second time, no model existing: nothing freed
C19_WitnessAgain ==
    /\ ret.op = "RESET" /\ freeLog = <<>>
    /\ ctx.plotData["membranePotential"][1][2] # 0

\* the buffer accesses of the handler that has just run
PlotEvents == SelectSeq(trace, LAMBDA e : e.ev = "plot")

\* the buffers whose samples carry the time of the sample
TimedBuffers == PlotBuffers \ {"phase"}

\* the count stays within the capacity and every buffer access of a tick is
\* inside the buffer
CapCount ==
    /\ ctx.dataCount \in 0..K_MAX_PLOT_POINTS
    /\ fault = FALSE
    /\ \A i \in 1..Len(PlotEvents) :
          PlotEvents[i].index \in 0..(K_MAX_PLOT_POINTS - 1)

\* at the cap a tick of a running simulation clears isRunning and nothing
\* else; a tick of a simulation that is not running changes nothing
CapTick ==
    ret'.op = "SimulationUpdate" =>
        /\ (ctx.isRunning /\ ctx.dataCount >= K_MAX_PLOT_POINTS) =>
              /\ ctx' = [ctx EXCEPT !.isRunning = FALSE]
              /\ trace' = <<>>
              /\ UNCHANGED <<heap, mem, obj>>
        /\ ~ctx.isRunning =>
              /\ trace' = <<>>
              /\ UNCHANGED <<ctx, heap, mem, obj>>

\* the sample written at index i carries the time i * K_DT
SampleTimes ==
    \A i \in 1..Len(PlotEvents) :
        (PlotEvents[i].rw = "w" /\ PlotEvents[i].buffer \in TimedBuffers) =>
            PlotEvents[i].x = F32Round(PlotEvents[i].index * K_DT_F32)

\* the run-length statements other than the one on the sample times
C20_CapHolds == []CapCount /\ [][CapTick]_vars

\* C20: a run records at most K_MAX_PLOT_POINTS samples: the data count is in
\* 0..K_MAX_PLOT_POINTS in every state, every buffer access of a tick uses an
\* index below K_MAX_PLOT_POINTS, a tick at the cap clears isRunning without
\* advancing (also after CONTINUE), a tick with isRunning false changes
\* nothing, and the sample at index i carries the time i * K_DT.
C20_RunLength == []CapCount /\ [][CapTick]_vars /\ []SampleTimes

\* a tick at the cap, after CONTINUE, has cleared isRunning again
C20_CapWitness ==
    /\ ret.op = "SimulationUpdate"
    /\ ctx.dataCount = K_MAX_PLOT_POINTS /\ ~ctx.isRunning
    /\ ctx.izModel # "NULL"
    /\ inputs = 2
    /\ ctx.externCurrent = 0 /\ ctx.activeIzhikevichModel = 0

(* ------------------------------------------------------------------ *)
(* C21                                                                 *)
(* ------------------------------------------------------------------ *)

\* the advance operations: each runs RK4Calculate once, first
RK4Ops == {"IzhikevichUpdateModel", "HodgkinHuxleyUpdateModel",
           "AmpaGabaaUpdateModel"}

\* the derivative of model k at the point x, evaluated by the model's
\* derivative function in world W with x laid in the temporary buffer
DerivAt(W, k, x) ==
    LET g == W.obj[k].integrator
        Wx == [W EXCEPT !.mem[<<k, "rk">>] =
                  [i \in 1..(5 * g.n) |->
                      IF i > 4 * g.n THEN x[i - 4 * g.n] ELSE @[i]]]
    IN  RdVec(CallDeriv(Wx, g.derivFunc, g.slopes.tempState, g.slopes.k1,
                        g.params),
              g.slopes.k1, g.n)

\* C21: one RK4 step makes exactly four derivative evaluations, in the order
\* k1 = f(y), k2 = f(y + dt/2 k1), k3 = f(y + dt/2 k2), k4 = f(y + dt k3),
\* every stage input built from the y the step started with (held in the
\* temporary buffer, the state vector untouched until the fourth evaluation
\* is done); the state vector is then written once, over exactly n
\* components, to y + dt/6 (k1 + 2 k2 + 2 k3 + k4).
C21_RK4Step ==
    [][(ret'.op \in RK4Ops /\ ret'.h # "NULL") =>
        LET k == ret'.h
            g == obj[k].integrator
            n == g.n
            dt == g.dt
            dtHalf == Mul(dt, FP \div 2)
            y == [i \in 1..n |-> mem[<<k, "sv">>][i]]
            rk == mem'[<<k, "rk">>]
            f == Events("f")'
            kv(j) == [i \in 1..n |-> rk[(j - 1) * n + i]]
            Stage(c, kk) == [i \in 1..n |-> y[i] + Mul(c, kk[i])]
        IN  /\ Len(f) = 4
            /\ \A j \in 1..4 : trace'[j].ev = "f"
            /\ trace'[5].ev = "y"
            /\ Len(Events("y")') = 1
            /\ Len(mem[<<k, "sv">>]) = n
            /\ f[1].x = y
            /\ f[2].x = Stage(dtHalf, kv(1))
            /\ f[3].x = Stage(dtHalf, kv(2))
            /\ f[4].x = Stage(dt, kv(3))
            /\ \A j \in 1..4 : kv(j) = DerivAt(World, k, f[j].x)
            /\ [i \in 1..n |-> rk[4 * n + i]] = f[4].x
            /\ Events("y")'[1].y =
                  [i \in 1..n |->
                      y[i] + Mul(kv(1)[i] + 2 * (kv(2)[i] + kv(3)[i]) + kv(4)[i],
                                 dt) \div 6]]_vars

\* the second advance of a Hodgkin-Huxley neuron under a non-zero current:
\* four components, the four stage inputs all different
C21_Witness ==
    /\ ret.op = "HodgkinHuxleyUpdateModel" /\ ret.h = "hh"
    /\ ticks = 2
    /\ Len(Events("f")) = 4
    /\ Events("f")[1].I # 0
    /\ Cardinality({Events("f")[j].x : j \in 1..4}) = 4
    /\ Events("y")[1].y # Events("f")[1].x

(* ------------------------------------------------------------------ *)
(* C22                                                                  *)
(* ------------------------------------------------------------------ *)

CurrentGetters == {"HodgkinHuxleyGetINa", "HodgkinHuxleyGetIK", "HodgkinHuxleyGetILeak"}

\* what the three current accessors return on the world W, as <<iNa, iK, iL>>
Accessors(W, model) ==
    <<HodgkinHuxleyGetINa(W, model).ret, HodgkinHuxleyGetIK(W, model).ret,
      HodgkinHuxleyGetILeak(W, model).ret>>

\* the ionic currents HodgkinHuxleyDerivatives computes at the state x of the
\* model k, as <<iNa, iK, iL>>
CurrentsAt(W, k, x) ==
    LET g == W.obj[k].integrator
        Wx == [W EXCEPT !.mem[<<k, "rk">>] =
                  [i \in 1..(5 * g.n) |-> IF i > 4 * g.n THEN x[i - 4 * g.n] ELSE @[i]]]
    IN  Accessors(CallDeriv(Wx, g.derivFunc, g.slopes.tempState, g.slopes.k1, g.params), k)

\* C22: after a Hodgkin-Huxley advance the sodium, potassium and leak
\* accessors return the currents of the fourth derivative evaluation of that
\* step, the one at the stage state y + dt * k3; after construction and until
\* the first advance they return 0; no other operation on the live model
\* changes what they return, and an accessor call returns the stored value
C22_CurrentAccessors ==
    [][LET k == ret'.h
           f == Events("f")'
       IN  /\ (ret'.op = "HodgkinHuxleyUpdateModel" /\ k # "NULL") =>
                 /\ Len(f) = 4
                 /\ f[4].x = [i \in 1..4 |->
                                 mem[HhSV][i] + Mul(obj[k].integrator.dt, mem'[<<k, "rk">>][8 + i])]
                 /\ Accessors(World', k) = CurrentsAt(World, k, f[4].x)
                 /\ Accessors(World', k) = <<f[4].cache.iNa, f[4].cache.iK, f[4].cache.iL>>
           /\ (ret'.op = "HodgkinHuxleyInitModel" /\ k # "NULL") =>
                 Accessors(World', k) = <<0, 0, 0>>
           /\ (hnd["hh"] # "NULL" /\ hnd'["hh"] # "NULL"
               /\ ret'.op # "HodgkinHuxleyUpdateModel") =>
                 Accessors(World', "hh") = Accessors(World, "hh")
           /\ (ret'.op \in CurrentGetters /\ k # "NULL") =>
                 ret'.val = HhCallGetter(World, ret'.op, k).ret]_vars

\* an advance under a non-zero injected current has left a leak current that
\* differs from what the formula gives at the post-step state
C22_Witness ==
    /\ ret.op = "HodgkinHuxleyUpdateModel" /\ ret.h = "hh"
    /\ Len(Events("f")) = 4
    /\ Events("f")[4].I # 0
    /\ Accessors(World, "hh")[3] # CurrentsAt(World, "hh", PostStep)[3]
    /\ Accessors(World, "hh") = CurrentsAt(World, "hh", Events("f")[4].x)

(* ------------------------------------------------------------------ *)
(* C23                                                                  *)
(* ------------------------------------------------------------------ *)

\* the cells a derivative evaluation of the model k may write besides its
\* outputs
CacheCells(k) ==
    LET fn == obj[k].integrator.derivFunc
    IN  IF fn = "HodgkinHuxleyDerivatives"
        THEN {obj[k].neuron.currents.iNa, obj[k].neuron.currents.iK,
              obj[k].neuron.currents.iL}
        ELSE IF fn = "AmpaGabaaDerivatives"
             THEN {obj[k].synapse.state.ntConcentration}
             ELSE {}

\* the cells of the blocks bs in which the world R differs from the current one
Written(R, bs) ==
    {c \in UNION {{[b |-> b, o |-> i - 1] : i \in 1..Len(mem[b])} : b \in bs} :
        R.mem[c.b][c.o + 1] # mem[c.b][c.o + 1]}

\* the models whose integrator is set up
Integrating == {k \in {"iz", "hh", "syn"} : hnd[k] # "NULL" /\ obj[k].integrator.buffer # NULL}

\* the (state, output) arguments of the four derivative calls of RK4Calculate
\* for the model k
DerivCalls(k) ==
    LET s == obj[k].integrator.slopes
    IN  {<<obj[k].stateVector, s.k1>>, <<s.tempState, s.k2>>,
         <<s.tempState, s.k3>>, <<s.tempState, s.k4>>}

\* the result of one derivative evaluation of the model k in the current state
Evaluate(k, state, deriv) ==
    CallDeriv(World, obj[k].integrator.derivFunc, state, deriv, obj[k].integrator.params)

\* C23: a derivative evaluation writes only its n outputs and the cache of its
\* model (nothing for Izhikevich; iNa, iK, iL for Hodgkin-Huxley; the
\* neurotransmitter concentration for the synapse): the state vector it is
\* given, the parameters, the input currents, a connected neuron's voltage and
\* the allocation state are left as they were
C23_DerivativeFrame ==
    \A k \in Integrating : \A call \in DerivCalls(k) :
        LET R == Evaluate(k, call[1], call[2])
            n == obj[k].integrator.n
            allowed == {At(call[2], i) : i \in 0..(n - 1)} \cup CacheCells(k)
            bs == {c.b : c \in allowed}
        IN  /\ R.heap = heap /\ R.obj = obj /\ R.fault = fault
            /\ R.allocLog = allocLog /\ R.freeLog = freeLog
            /\ \A b \in DOMAIN mem \ bs : R.mem[b] = mem[b]
            /\ Written(R, bs) \subseteq allowed

\* a connected synapse whose evaluation at its state vector changes the
\* concentration slot and the output, with a presynaptic voltage of 0
C23_Witness ==
    /\ "syn" \in Integrating /\ ~fault
    /\ Connected
    /\ Rd(World, obj["syn"].synapse.ntParams.vPre) = 0
    /\ LET s == obj["syn"].integrator.slopes
       IN  Written(Evaluate("syn", obj["syn"].stateVector, s.k1), DOMAIN mem)
               = {obj["syn"].synapse.state.ntConcentration, s.k1}

\* a Hodgkin-Huxley model whose evaluation changes the cached leak current
C23_WitnessHh ==
    /\ "hh" \in Integrating /\ ~fault
    /\ LET c == obj["hh"].neuron.currents
       IN  c.iL \in
               Written(Evaluate("hh", obj["hh"].stateVector, obj["hh"].integrator.slopes.k1),
                       DOMAIN mem)

(* ------------------------------------------------------------------ *)
(* C24, C25                                                             *)
(* ------------------------------------------------------------------ *)

NeuronUpdates == {"IzhikevichUpdateModel", "HodgkinHuxleyUpdateModel"}

DerivOf(k) ==
    IF k = "iz" THEN "IzhikevichDerivatives"
    ELSE IF k = "hh" THEN "HodgkinHuxleyDerivatives" ELSE "AmpaGabaaDerivatives"

\* the synaptic-current slot of the neuron k in the current state
Slot(k) == Rd(World, IsynRef(World, k))

\* the same slot on the world W
SlotIn(W, k) == Rd(W, IsynRef(W, k))

\* C24: in a tick that advances the neurons first and the synapse last, the
\* synapse's advance reads, in each of its derivative evaluations and in its
\* current, the voltages the two neurons were left with by their advances of
\* this tick, and adds its I_syn to the post-synaptic slot; the derivative
\* evaluations of a neuron's advance read the external current plus what the
\* slot held at the end of the tick before, so that the I_syn of tick t enters
\* the post-synaptic neuron in tick t + 1 and in no evaluation before
C24_CouplingDelay ==
    [][LET f == Events("f")'
           isyn == Events("isyn")'
           sy == obj["syn"].synapse
       IN  /\ ret'.op = "AmpaGabaaUpdateModel" =>
                 /\ ret.op = "HodgkinHuxleyUpdateModel"
                 /\ Len(f) = 4 /\ Len(isyn) = 1
                 /\ \A j \in 1..4 : /\ f[j].fn = "AmpaGabaaDerivatives"
                                    /\ f[j].vPre = ret.v[ret.pre]
                 /\ ret.v = [k \in {"iz", "hh"} |-> Rd(World, VoltRef(World, k))]
                 /\ isyn[1].vPost = ret.v[ret.post]
                 /\ isyn[1].r = mem'[<<"syn", "sv">>][1]
                 /\ isyn[1].iSyn = Mul(Mul(Rd(World, sy.receptor.gMax), isyn[1].r),
                                       Rd(World, sy.receptor.eRev) - ret.v[ret.post])
                 /\ Slot(ret.post)' = Slot(ret.post) + isyn[1].iSyn
                 /\ ret'.sum = ret.sum + isyn[1].iSyn
           /\ ret'.op \in NeuronUpdates =>
                 /\ Len(f) = 4
                 /\ \A j \in 1..4 :
                       /\ f[j].fn = DerivOf(ret'.h)
                       /\ f[j].I = ret.iExt[ret'.h]
                                   + (IF ret'.h = ret.post THEN ret.base + ret.sum ELSE 0)
                 /\ ret'.sum = ret.sum
                 /\ ret'.v[ret'.h] = Rd(World', VoltRef(World, ret'.h))]_vars

\* the post-synaptic neuron's advance of a later tick reads, next to its
\* external current, the non-zero I_syn the synapse added in the ticks before
C24_Witness ==
    /\ ret.op \in NeuronUpdates /\ ret.h = ret.post
    /\ ticks >= 1 /\ ret.sum # 0 /\ ret.base = 0
    /\ Len(Events("f")) = 4
    /\ Events("f")[1].I = ret.iExt[ret.post] + ret.sum
    /\ Slot(ret.post) = ret.sum

\* C25: no neuron operation clears its synaptic-current slot: the
\* set-external-current and advance of either neuron leave both slots as they
\* were, an advance of the connected synapse adds the current its accessor
\* reports, and so after k synapse advances the post-synaptic slot holds its
\* value at connect time plus the sum of the k I_syn values
C25_SlotAccumulates ==
    [][/\ ret'.op \in NeuronUpdates =>
             /\ Slot("iz")' = Slot("iz")
             /\ Slot("hh")' = Slot("hh")
       /\ ret'.op = "AmpaGabaaUpdateModel" =>
             /\ Slot(ret.post)' = Slot(ret.post) + AmpaGabaaGetSynapticCurrent(World', "syn").ret
             /\ Slot(ret.pre)' = Slot(ret.pre)
       /\ ret'.op # "none" =>
             /\ SlotIn(World', ret'.post) = ret'.base + ret'.sum
             /\ SlotIn(World', ret'.pre) = 0]_vars

\* after several synapse advances with differing non-zero contributions, the
\* post-synaptic neuron has advanced again and its slot still holds their sum
C25_Witness ==
    /\ ret.op \in NeuronUpdates /\ ret.h = ret.post
    /\ ticks >= 3
    /\ AmpaGabaaGetSynapticCurrent(World, "syn").ret \notin {0, ret.sum}
    /\ Slot(ret.post) = ret.base + ret.sum
    /\ Slot(ret.post) # 0

(* ------------------------------------------------------------------ *)
(* C26                                                                  *)
(* ------------------------------------------------------------------ *)

\* what a reader holding &v of the Izhikevich neuron sees
StoredV == Rd(World, VoltRef(World, "iz"))

\* C26: for every preset, while an Izhikevich model exists the stored membrane
\* potential is below the peak 30.0, after construction and after every
\* advance; an advance whose step reached the peak has stored the reset value
\* c and returns the peak, any other advance returns the stored potential
C26_StoredBelowPeak ==
    (hnd["iz"] # "NULL" /\ heap[<<"iz", "sv">>] = "live") =>
        /\ StoredV < IZHIKEVICH_SPIKE_PEAK
        /\ (ret.op = "IzhikevichInitModel") =>
               StoredV = IZHIKEVICH_PARAMETERS[ret.type + 1].c - 10000
        /\ (ret.op = "IzhikevichUpdateModel" /\ ret.h = "iz") =>
               IF PostStep[1] >= IZHIKEVICH_SPIKE_PEAK
               THEN /\ ret.val = IZHIKEVICH_SPIKE_PEAK
                    /\ StoredV = Rd(World, obj["iz"].neuron.params.c)
               ELSE /\ ret.val = StoredV
                    /\ StoredV = PostStep[1]

\* an advance whose step overshot the peak: it returned 30.0 and the stored
\* potential is the reset value of the preset
C26_Witness ==
    /\ ret.op = "IzhikevichUpdateModel" /\ ret.h = "iz"
    /\ PostStep[1] > IZHIKEVICH_SPIKE_PEAK
    /\ ret.val = IZHIKEVICH_SPIKE_PEAK
    /\ StoredV = -50000

(* ------------------------------------------------------------------ *)
(* C27                                                                  *)
(* ------------------------------------------------------------------ *)

\* 1 if the block b is allocated on the heap hp, else 0
Live(hp, b) == IF hp[b] = "live" THEN 1 ELSE 0

\* the handle the application holds for the model kind k
HandleIn(c, k) == IF k = "iz" THEN c.izModel ELSE c.hhModel

\* C27: over START, PAUSE/CONTINUE and RESET (button or key), ticks and the
\* reset at exit, the allocations and releases of every handler balance: a
\* block is live afterwards as often as it was live before, plus its
\* allocations, minus its releases (nothing is allocated over a live model,
\* nothing is left behind); no release or access faults (nothing is freed
\* twice); a handle is non-null exactly while all blocks of its model are
\* live, so no freed handle is passed on; at most one of izModel and hhModel
\* is non-null; after the reset at exit nothing is live
C27_ModelLifetime ==
    [][/\ ~fault'
       /\ \A b \in ModelBlocks :
             Live(heap', b) = Live(heap, b) + Count(allocLog', b) - Count(freeLog', b)
       /\ \A k \in AppKinds : \A p \in Parts :
             (HandleIn(ctx', k) # "NULL") <=> (heap'[<<k, p>>] = "live")
       /\ \A p \in Parts : heap'[<<"syn", p>>] # "live"
       /\ ctx'.izModel = "NULL" \/ ctx'.hhModel = "NULL"
       /\ ret'.op = "WindowClose" => \A b \in ModelBlocks : heap'[b] # "live"]_vars

\* START pressed while a model existed: the old model's four blocks were freed
\* and a new Hodgkin-Huxley model was constructed
C27_Witness ==
    /\ ret.op = "START"
    /\ Len(freeLog) = 4 /\ Len(allocLog) = 4
    /\ ctx.hhModel = "hh" /\ ctx.izModel = "NULL"
    /\ ctx.isRunning

\* the loop has ended with a model in place: the reset at exit freed it
C27_WitnessExit ==
    /\ ret.op = "WindowClose"
    /\ Len(freeLog) = 4
    /\ \A b \in ModelBlocks : heap[b] # "live"

(* ------------------------------------------------------------------ *)
(* C28                                                                  *)
(* ------------------------------------------------------------------ *)

\* the handle of the selected model kind in the application state c
ActiveHandle(c) ==
    IF c.activeNeuronModel = IZHIKEVICH_MODEL THEN c.izModel ELSE c.hhModel

\* a tick that has counted a sample although no model was advanced
EmptyTick ==
    /\ ret.op = "SimulationUpdate"
    /\ ctx.dataCount > 0
    /\ Len(Events("y")) = 0
    /\ Len(Events("plot")) = 0

\* C28: whenever isRunning is true a model of the selected kind exists, also
\* after a START whose constructor failed, and every tick that increments
\* dataCount and currentTime has advanced that model once and stored its sample
C28_RunningHasModel ==
    [][/\ ctx'.isRunning => ActiveHandle(ctx') # "NULL"
       /\ (ret'.op = "SimulationUpdate" /\ ctx'.dataCount = ctx.dataCount + 1) =>
             /\ Len(Events("y")') = 1
             /\ Len(Events("plot")') >= 1
             /\ ctx'.currentTime # ctx.currentTime]_vars

\* the state a failed START leaves: running, with no model
C28_RunningWithoutModel ==
    /\ ret.op \in {"START", "InputHanndleKeys"}
    /\ ctx.isRunning
    /\ ctx.izModel = "NULL" /\ ctx.hhModel = "NULL"
    /\ Len(allocLog) = 1 /\ Len(freeLog) = 1

(* ------------------------------------------------------------------ *)
(* C29, C30                                                             *)
(* ------------------------------------------------------------------ *)

\* the selector value m of a selector with n entries after the arrows of keys
Stepped(m, n, keys) ==
    (m + n + (IF "RIGHT" \in keys THEN 1 ELSE 0) - (IF "LEFT" \in keys THEN 1 ELSE 0)) % n

SimulationStarted(c) == c.izModel # "NULL" \/ c.hhModel # "NULL"

\* C29: under any frames of key presses activeNeuronModel stays in {0, 1} and
\* activeIzhikevichModel in 0..6; LEFT and RIGHT on a focused selector step it
\* with wrap-around in both directions while no model exists, and change
\* neither selector while one exists; a model constructed by START is of the
\* selected kind and, for Izhikevich, carries the parameters of the selected
\* entry of the preset table; the kind of the non-null handle is the selected
\* kind
C29_SelectorsValid ==
    [][LET keys == ret'.keys
           f == ctx'.activeControlFocus
           onModel == ctx'.focusTab = FOCUS_CONTROLS /\ f = CONTROL_FOCUS_MODEL_SELECTOR
           onPreset == ctx'.focusTab = FOCUS_CONTROLS /\ f = CONTROL_FOCUS_IZ_MODEL_SELECTOR
       IN  /\ ctx'.activeNeuronModel \in {IZHIKEVICH_MODEL, HODGKIN_HUXLEY_MODEL}
           /\ ctx'.activeIzhikevichModel \in 0..(Len(IZHIKEVICH_PARAMETERS) - 1)
           /\ ctx'.activeNeuronModel =
                  IF onModel /\ ~SimulationStarted(ctx)
                  THEN Stepped(ctx.activeNeuronModel, 2, keys)
                  ELSE ctx.activeNeuronModel
           /\ ctx'.activeIzhikevichModel =
                  IF onPreset /\ ~SimulationStarted(ctx)
                  THEN Stepped(ctx.activeIzhikevichModel, 7, keys)
                  ELSE ctx.activeIzhikevichModel
           /\ ctx'.izModel # "NULL" =>
                  /\ ctx'.activeNeuronModel = IZHIKEVICH_MODEL
                  /\ Rd(World', obj'["iz"].neuron.params.d)
                         = IZHIKEVICH_PARAMETERS[ctx'.activeIzhikevichModel + 1].d
                  /\ Rd(World', obj'["iz"].neuron.params.c)
                         = IZHIKEVICH_PARAMETERS[ctx'.activeIzhikevichModel + 1].c
           /\ ctx'.hhModel # "NULL" => ctx'.activeNeuronModel = HODGKIN_HUXLEY_MODEL]_vars

\* LEFT on the focused preset selector while a model of the last preset,
\* reached by wrapping from 0, exists: the selector has stayed at 6
C29_Witness ==
    /\ ret.op = "InputHanndleKeys" /\ ret.keys = {"LEFT"}
    /\ ctx.focusTab = FOCUS_CONTROLS
    /\ ctx.activeControlFocus = CONTROL_FOCUS_IZ_MODEL_SELECTOR
    /\ ctx.izModel = "iz"
    /\ ctx.activeIzhikevichModel = 6
    /\ Rd(World, obj["iz"].neuron.params.d) = 50

\* the model selector has wrapped from Hodgkin-Huxley back to Izhikevich on
\* RIGHT, pressed together with another arrow
C29_WitnessWrap ==
    /\ ret.op = "InputHanndleKeys" /\ {"RIGHT"} \subseteq ret.keys
    /\ Cardinality(ret.keys) = 2
    /\ ctx.focusTab = FOCUS_CONTROLS
    /\ ctx.activeControlFocus = CONTROL_FOCUS_MODEL_SELECTOR
    /\ ctx.activeNeuronModel = IZHIKEVICH_MODEL
    /\ ctx.activeIzhikevichModel = 6

\* C30: under any frames of key presses, several arrows in one frame
\* included, a control is focused only inside the controls panel; the panel
\* focus leaves the controls panel only with no control focused; and
\* activeControlFocus changes only in a frame whose control navigation runs
\* with the panel focus on the controls panel (the panel focus the frame ends
\* with, as only the panel navigation before it writes focusTab)
C30_FocusInvariant ==
    [][/\ ctx'.activeControlFocus # CONTROL_FOCUS_NONE => ctx'.focusTab = FOCUS_CONTROLS
       /\ (ctx.focusTab = FOCUS_CONTROLS /\ ctx'.focusTab # FOCUS_CONTROLS) =>
              /\ ctx.activeControlFocus = CONTROL_FOCUS_NONE
              /\ ctx'.activeControlFocus = CONTROL_FOCUS_NONE
       /\ ctx'.activeControlFocus # ctx.activeControlFocus =>
              ctx'.focusTab = FOCUS_CONTROLS
       /\ ctx'.focusTab \in FOCUS_NONE..FOCUS_AUXILIARY_DISPLAY
       /\ ctx'.activeControlFocus \in CONTROL_FOCUS_NONE..CONTROL_FOCUS_CURRENT_SLIDER]_vars

\* three arrows in one frame on a focused button: the focus has moved inside
\* the controls panel, which the panel focus has not left
C30_Witness ==
    /\ ret.op = "InputHanndleKeys" /\ ret.keys = {"UP", "LEFT", "RIGHT"}
    /\ ctx.focusTab = FOCUS_CONTROLS
    /\ ctx.activeControlFocus = CONTROL_FOCUS_RESET_BUTTON

\* UP and RIGHT in one frame with no control focused: the panel focus has left
\* the controls panel for the main display
C30_WitnessLeave ==
    /\ ret.op = "InputHanndleKeys" /\ ret.keys = {"UP", "RIGHT"}
    /\ ctx.focusTab = FOCUS_MAIN_DISPLAY
    /\ ctx.activeControlFocus = CONTROL_FOCUS_NONE
====
